---------------------------- MODULE Spec2Model ----------------------------
(***************************************************************************)
(* Model of the metadata pipeline of src/main.py (Stock Metadata           *)
(* Generator): keyword padding, keyword translation, the iStock vocabulary *)
(* mapping, the per-folder CSV record table, the thumbnail cache, the      *)
(* requests of one generation run, the application's handlers, worker      *)
(* thread and scheduled callbacks, and the population of the file listing. *)
(*                                                                         *)
(* A Python str is modelled as a sequence of one-character strings, so     *)
(* that str.strip, str.lower, str.split and str.join are computed rather   *)
(* than assumed.                                                           *)
(***************************************************************************)
EXTENDS Integers, Sequences, FiniteSets, TLC

VARIABLES
    \* fill_keywords_to_max(existing, max_count, candidates) and its caller
    existing, max_count, candidates, out, out2, fpc,
    \* api_translate_kw(kws, key): the request in flight, the service's
    \* response, the returned list
    kws, tr_chunk, tr_resp, tr_ret,
    \* the translation stage of App._generate.run: the three English lists,
    \* the localized lists, the platforms whose request failed, self.metadata
    run_en, run_tr, run_failed, metadata, tpc,
    \* map_istock(kws): the persisted vocabulary map, the keyword list, the
    \* mapped list, the list after a second application
    istock_map, istock_raw, istock_en, istock_en2, ipc,
    \* the record tables on disk (one _metadata.csv per folder), the folder
    \* and record of a save_db call, the map a later load_db returns
    disk, db_folder, db_record, db_loaded, dpc,
    \* a sequence of save_db calls into one folder: the folder's table before
    \* the first call, the table now, the records passed so far
    sv_prior, sv_file, sv_log,
    \* get_thumb: the source files, the cache directory (THUMB_DIR), the
    \* calls in progress (one per thread), the number of calls started and of
    \* changes made to the source files, and for each (path, w, h) the buffer
    \* the first successful call returned
    th_source, th_cache, th_call, th_calls, th_edits, th_first,
    \* one generation run (App._generate.run) with its requests: the settings
    \* and vocabulary map it reads, its position and local variables, the
    \* number of requests issued per kind, self.metadata, and the callbacks
    \* it has handed to the interface thread (self.after)
    gen_settings, gen, gen_requests, gen_metadata, gen_after,
    \* the application (class App): self.current_file, self.current_folder,
    \* self.metadata, the content of the form, the two buttons, the record
    \* tables on disk, self._db_cache, the generation worker, the callbacks
    \* pending in the interface thread (self.after), whether the window has
    \* been closed, and what has happened so far: the number of runs started
    \* and of operator actions, the table writes, the assets saved by hand,
    \* and for each run the asset it was started for and how it ended, and
    \* the error dialogs shown to the operator (messagebox.showerror)
    current_file, current_folder, app_metadata, form, save_btn, gen_btn,
    tables, db_cache, worker, after, closed, runs, clicks, writes, by_hand,
    outcome, shown,
    \* the file listing (App._load_folder, _load_thumbs_bg, _add_row):
    \* self._files, the rows of self.list_frame from top to bottom, the keys
    \* of self._file_row_map, the loader threads started so far, the
    \* _add_row callbacks pending in the interface thread, and the folder
    \* loads so far
    ls_files, ls_rows, ls_row_map, ls_loaders, ls_after, ls_loads

fillVars == <<existing, max_count, candidates, out, out2, fpc>>
trVars == <<kws, tr_chunk, tr_resp, tr_ret, run_en, run_tr, run_failed,
            metadata, tpc>>
istVars == <<istock_map, istock_raw, istock_en, istock_en2, ipc>>
dbVars == <<disk, db_folder, db_record, db_loaded, dpc>>
svVars == <<sv_prior, sv_file, sv_log>>
thVars == <<th_source, th_cache, th_call, th_calls, th_edits, th_first>>
genVars == <<gen_settings, gen, gen_requests, gen_metadata, gen_after>>
appVars == <<current_file, current_folder, app_metadata, form, save_btn,
             gen_btn, tables, db_cache, worker, after, closed, runs, clicks,
             writes, by_hand, outcome, shown>>
lsVars == <<ls_files, ls_rows, ls_row_map, ls_loaders, ls_after, ls_loads>>
vars == <<fillVars, trVars, istVars, dbVars, svVars, thVars, genVars, appVars,
          lsVars>>

\* the variables each specification leaves alone
notFill ==
    <<trVars, istVars, dbVars, svVars, thVars, genVars, appVars, lsVars>>
notTr ==
    <<fillVars, istVars, dbVars, svVars, thVars, genVars, appVars, lsVars>>
notIst ==
    <<fillVars, trVars, dbVars, svVars, thVars, genVars, appVars, lsVars>>
notDb ==
    <<fillVars, trVars, istVars, svVars, thVars, genVars, appVars, lsVars>>
notSv ==
    <<fillVars, trVars, istVars, dbVars, thVars, genVars, appVars, lsVars>>
notTh ==
    <<fillVars, trVars, istVars, dbVars, svVars, genVars, appVars, lsVars>>
notGen ==
    <<fillVars, trVars, istVars, dbVars, svVars, thVars, appVars, lsVars>>
notApp ==
    <<fillVars, trVars, istVars, dbVars, svVars, thVars, genVars, lsVars>>
notLs ==
    <<fillVars, trVars, istVars, dbVars, svVars, thVars, genVars, appVars>>

-----------------------------------------------------------------------------
(* Bounds of the model *)

MaxExisting == 2
MaxCandidates == 3
MaxCount == 3
MaxWords == 3
MaxRaw == 4
MaxTerms == 2
MaxField == 2

(* Program constants *)

ADOBE_MAX == 49
\* kws[:50] in api_translate_kw
TRANSLATE_CHUNK == 50

-----------------------------------------------------------------------------
(* Python str and list primitives *)

LowerLetters == <<"a", "b", "c", "d", "e", "f", "g", "h", "i", "j", "k", "l", "m",
                  "n", "o", "p", "q", "r", "s", "t", "u", "v", "w", "x", "y", "z">>
UpperLetters == <<"A", "B", "C", "D", "E", "F", "G", "H", "I", "J", "K", "L", "M",
                  "N", "O", "P", "Q", "R", "S", "T", "U", "V", "W", "X", "Y", "Z">>

IsSpace(c) == c \in {" ", "\n", "\r"}

\* str.lower() on one character
LowerChar(c) ==
    IF \E i \in 1..Len(UpperLetters) : UpperLetters[i] = c
    THEN LowerLetters[CHOOSE i \in 1..Len(UpperLetters) : UpperLetters[i] = c]
    ELSE c

\* str.lower()
Lower(s) == [i \in 1..Len(s) |-> LowerChar(s[i])]

RECURSIVE LStrip(_)
LStrip(s) ==
    IF s = <<>> THEN <<>>
    ELSE IF IsSpace(Head(s)) THEN LStrip(Tail(s)) ELSE s

RECURSIVE RStrip(_)
RStrip(s) ==
    IF s = <<>> THEN <<>>
    ELSE IF IsSpace(s[Len(s)]) THEN RStrip(SubSeq(s, 1, Len(s) - 1)) ELSE s

\* str.strip()
Strip(s) == RStrip(LStrip(s))

\* lst[:n] for n >= 0
Take(lst, n) == SubSeq(lst, 1, IF n < Len(lst) THEN n ELSE Len(lst))

\* all lists over S of length at most n
SeqsUpTo(S, n) == UNION {[1..k -> S] : k \in 0..n}

Min(a, b) == IF a < b THEN a ELSE b
Max(a, b) == IF a > b THEN a ELSE b

-----------------------------------------------------------------------------
(* fill_keywords_to_max, src/main.py:231-243 *)

\* seen = {k.strip().lower() for k in existing if k and k.strip()}
FillSeen(lst) ==
    {Lower(Strip(lst[i])) : i \in {j \in 1..Len(lst) : Strip(lst[j]) # <<>>}}

\* the for loop over candidates, lines 235-242
RECURSIVE FillLoop(_, _, _, _)
FillLoop(o, seen, mx, cands) ==
    IF cands = <<>> THEN o
    ELSE IF Len(o) >= mx THEN o
    ELSE LET t == Strip(Head(cands))
         IN  IF t = <<>> \/ Lower(t) \in seen
             THEN FillLoop(o, seen, mx, Tail(cands))
             ELSE FillLoop(Append(o, t), seen \cup {Lower(t)}, mx, Tail(cands))

\* a variant that stops only once the list is longer than max_count
RECURSIVE FillLoopLate(_, _, _, _)
FillLoopLate(o, seen, mx, cands) ==
    IF cands = <<>> THEN o
    ELSE IF Len(o) > mx THEN o
    ELSE LET t == Strip(Head(cands))
         IN  IF t = <<>> \/ Lower(t) \in seen
             THEN FillLoopLate(o, seen, mx, Tail(cands))
             ELSE FillLoopLate(Append(o, t), seen \cup {Lower(t)}, mx, Tail(cands))

fill_stops_late(ex, mx, cands) == FillLoopLate(ex, FillSeen(ex), mx, cands)

\* a variant that tests the candidate itself, not its lowercase form
RECURSIVE FillLoopCase(_, _, _, _)
FillLoopCase(o, seen, mx, cands) ==
    IF cands = <<>> THEN o
    ELSE IF Len(o) >= mx THEN o
    ELSE LET t == Strip(Head(cands))
         IN  IF t = <<>> \/ t \in seen
             THEN FillLoopCase(o, seen, mx, Tail(cands))
             ELSE FillLoopCase(Append(o, t), seen \cup {Lower(t)}, mx, Tail(cands))

fill_case_sensitive(ex, mx, cands) == FillLoopCase(ex, FillSeen(ex), mx, cands)

\* a variant that never records an appended candidate in seen
RECURSIVE FillLoopForget(_, _, _, _)
FillLoopForget(o, seen, mx, cands) ==
    IF cands = <<>> THEN o
    ELSE IF Len(o) >= mx THEN o
    ELSE LET t == Strip(Head(cands))
         IN  IF t = <<>> \/ Lower(t) \in seen
             THEN FillLoopForget(o, seen, mx, Tail(cands))
             ELSE FillLoopForget(Append(o, t), seen, mx, Tail(cands))

fill_forgets_seen(ex, mx, cands) == FillLoopForget(ex, FillSeen(ex), mx, cands)

fill_keywords_to_max(ex, mx, cands) == FillLoop(ex, FillSeen(ex), mx, cands)

\* App._generate.run, lines 838-841: truncate the base list, pad when short
AdobePad(base_kw, groq_kw) ==
    LET adobe_en == Take(base_kw, ADOBE_MAX)
    IN  IF Len(adobe_en) < ADOBE_MAX
        THEN fill_keywords_to_max(adobe_en, ADOBE_MAX, groq_kw)
        ELSE adobe_en

-----------------------------------------------------------------------------
(* Python exceptions: a call returns a value or raises *)

Return(v) == [exc |-> FALSE, val |-> v]
Raise == [exc |-> TRUE, val |-> <<>>]

\* str.split(sep) for a one-character separator: always at least one part
RECURSIVE SplitFrom(_, _, _)
SplitFrom(s, sep, cur) ==
    IF s = <<>> THEN <<cur>>
    ELSE IF Head(s) = sep THEN <<cur>> \o SplitFrom(Tail(s), sep, <<>>)
    ELSE SplitFrom(Tail(s), sep, Append(cur, Head(s)))

Split(s, sep) == SplitFrom(s, sep, <<>>)

\* sep.join(lst)
RECURSIVE Join(_, _)
Join(lst, sep) ==
    IF lst = <<>> THEN <<>>
    ELSE IF Len(lst) = 1 THEN lst[1]
    ELSE lst[1] \o sep \o Join(Tail(lst), sep)

-----------------------------------------------------------------------------
(* The translation service, src/main.py:147-154 and 209-221 *)

\* what the completion service does with one request: it answers with some
\* content, or the request fails
FailureKinds == {"connection", "status", "timeout", "malformed"}

\* groq_text: raise_for_status and the JSON access raise on every failure;
\* the content is stripped
groq_text(resp) ==
    IF resp.kind = "ok" THEN Return(Strip(resp.content)) ELSE Raise

\* api_translate: one groq_text request, nothing caught
api_translate(resp) == groq_text(resp)

\* chunk = ", ".join(kws[:50])
TranslateChunk(words) == Join(Take(words, TRANSLATE_CHUNK), <<",", " ">>)

\* parts = [p.strip() for p in raw.split(",")]
TranslateParts(raw) ==
    LET ps == Split(raw, ",") IN [i \in 1..Len(ps) |-> Strip(ps[i])]

\* a variant without the try/except: a failed request propagates
translate_kw_raises(words, resp) ==
    LET r == api_translate(resp)
    IN  IF r.exc THEN Raise
        ELSE Return(Take(TranslateParts(r.val) \o words, Len(words)))

\* a variant that returns the translated parts without padding
translate_kw_unpadded(words, resp) ==
    LET r == api_translate(resp)
    IN  IF r.exc THEN Return(words)
        ELSE Return(Take(TranslateParts(r.val), Len(words)))

\* api_translate_kw, lines 215-221: (parts + kws)[:len(kws)], and kws on
\* any exception
api_translate_kw(words, resp) ==
    LET r == api_translate(resp)
    IN  IF r.exc THEN Return(words)
        ELSE Return(Take(TranslateParts(r.val) \o words, Len(words)))

-----------------------------------------------------------------------------
(* Inputs of the padding specification *)

\* keywords as they come from the model / the tagging service: blank,
\* case variants, untrimmed, distinct
Words == { <<" ">>, <<"a">>, <<"A">>, <<" ", "b">> }

\* the i-th of 64 distinct two-letter lowercase keywords, i in 1..64
Kw(i) == <<LowerLetters[((i - 1) \div 8) + 1], LowerLetters[((i - 1) % 8) + 1]>>
\* the same keyword with its first letter in upper case
KwCap(i) == <<UpperLetters[((i - 1) \div 8) + 1], LowerLetters[((i - 1) % 8) + 1]>>

\* Scenario: 40 base terms; 20 padding candidates of which the 5 at
\* positions d+1..d+5 repeat present terms (in another case), 15 are new
ScenarioBase == [i \in 1..40 |-> Kw(i)]
ScenarioCands(d) ==
    [p \in 1..20 |-> IF p > d /\ p <= d + 5 THEN KwCap(p) ELSE Kw(40 + p)]

\* Scenario 2 of the specification:
\* (["Sunset","sunset","Beach"], 5, ["beach","Mountain","Mountain"])
Sunset == <<"S", "u", "n", "s", "e", "t">>
Beach == <<"B", "e", "a", "c", "h">>
Mountain == <<"M", "o", "u", "n", "t", "a", "i", "n">>
ExampleExisting == <<Sunset, Lower(Sunset), Beach>>
ExampleCandidates == <<Lower(Beach), Mountain, Mountain>>

FillIdle ==
    /\ fpc = "off"
    /\ existing = <<>> /\ max_count = 0 /\ candidates = <<>>
    /\ out = <<>> /\ out2 = <<>>

FillInit ==
    /\ fpc = "input"
    /\ out = <<>>
    /\ out2 = <<>>
    /\ \/ /\ existing \in SeqsUpTo(Words, MaxExisting)
          /\ max_count \in 0..MaxCount
          /\ candidates \in SeqsUpTo(Words, MaxCandidates)
       \/ /\ existing = ScenarioBase
          /\ max_count = ADOBE_MAX
          /\ candidates \in {ScenarioCands(d) : d \in 0..15}
       \/ /\ existing = ExampleExisting
          /\ max_count = 5
          /\ candidates = ExampleCandidates

\* one call fill_keywords_to_max(existing, max_count, candidates)
FillCall ==
    /\ fpc = "input"
    /\ out' = fill_keywords_to_max(existing, max_count, candidates)
    /\ fpc' = "filled"
    /\ UNCHANGED <<existing, max_count, candidates, out2>>
    /\ UNCHANGED notFill

\* the result is fed back in with the same max_count and candidates
FillAgain ==
    /\ fpc = "filled"
    /\ out2' = fill_keywords_to_max(out, max_count, candidates)
    /\ fpc' = "refilled"
    /\ UNCHANGED <<existing, max_count, candidates, out>>
    /\ UNCHANGED notFill

\* the adobe step of a generation run with base_kw = existing and
\* groq_kw = candidates
RunAdobePad ==
    /\ fpc = "input"
    /\ out' = AdobePad(existing, candidates)
    /\ fpc' = "padded"
    /\ UNCHANGED <<existing, max_count, candidates, out2>>
    /\ UNCHANGED notFill

FillNext == FillCall \/ FillAgain \/ RunAdobePad


-----------------------------------------------------------------------------
(* Claims about fill_keywords_to_max *)

\* two keywords are equal under case-insensitive comparison
EqualCI(a, b) == Lower(a) = Lower(b)

NoDuplicatesCI(lst) ==
    \A i, j \in 1..Len(lst) : i < j => ~EqualCI(lst[i], lst[j])

\* C1 as stated: whatever the length of existing, the result of
\* fill_keywords_to_max has at most max_count entries.
C1_LengthAtMostMax == fpc = "filled" => Len(out) <= max_count

\* C1 amended: the result has at most max(max_count, len(existing)) entries:
\* at most max_count when existing is no longer than max_count, and exactly
\* len(existing) (nothing appended, nothing removed) when it is longer.
C1_LengthBound ==
    fpc = "filled" =>
        /\ Len(out) <= Max(max_count, Len(existing))
        /\ Len(existing) > max_count => out = existing

\* C1 witness: padding stopped at max_count with new candidates left over
C1_Witness ==
    /\ fpc = "filled"
    /\ Len(existing) < max_count
    /\ Len(out) = max_count
    /\ \E i \in 1..Len(candidates) :
          /\ Strip(candidates[i]) # <<>>
          /\ \A j \in 1..Len(out) : ~EqualCI(out[j], Strip(candidates[i]))

\* C2: the result of fill_keywords_to_max holds no two entries equal under
\* case-insensitive comparison, also when existing already holds such a
\* pair; for scenario 2 the result is the three unique entries.
C2_NoDuplicates ==
    fpc = "filled" =>
        /\ NoDuplicatesCI(out)
        /\ (existing = ExampleExisting /\ candidates = ExampleCandidates)
              => out = <<Sunset, Beach, Mountain>>

\* C3: fill_keywords_to_max is idempotent: feeding the result back in with
\* the same max_count and candidates returns it unchanged.
C3_Idempotent == fpc = "refilled" => out2 = out

\* C3 witness: the first call appended something and did not fill the list,
\* so the second call walks all candidates again
C3_Witness ==
    /\ fpc = "refilled"
    /\ Len(out) > Len(existing)
    /\ Len(out) < max_count

\* the trimmed candidates that are non-empty, not present in lst and not a
\* repetition of an earlier candidate (compared trimmed, case-insensitively),
\* as the set of their positions
NewPositions(lst, cands) ==
    {i \in 1..Len(cands) :
        /\ Strip(cands[i]) # <<>>
        /\ \A e \in 1..Len(lst) : ~EqualCI(Strip(lst[e]), Strip(cands[i]))
        /\ \A j \in 1..(i - 1) : ~EqualCI(Strip(cands[j]), Strip(cands[i]))}

\* the n-th smallest element of a set of positions
NthPosition(S, n) == CHOOSE i \in S : Cardinality({j \in S : j < i}) = n - 1

\* existing, then the first new candidates in candidate order, cut at mx
ExpectedFill(lst, mx, cands) ==
    LET new == NewPositions(lst, cands)
        n   == Min(mx - Len(lst), Cardinality(new))
    IN  lst \o [k \in 1..n |-> Strip(cands[NthPosition(new, k)])]

\* C4: when len(existing) <= max_count the result is existing, unchanged,
\* followed by the new candidates (trimmed, first occurrences, in candidate
\* order), cut off at min(max_count, len(existing) + number of new ones);
\* the adobe step of a run with 40 base terms and 20 candidates of which 5
\* repeat present terms yields 49 entries: the 40, then the first 9 new ones.
C4_PrefixThenNew ==
    /\ (fpc = "filled" /\ Len(existing) <= max_count) =>
          /\ out = ExpectedFill(existing, max_count, candidates)
          /\ SubSeq(out, 1, Len(existing)) = existing
          /\ Len(out) = Min(max_count, Len(existing)
                                + Cardinality(NewPositions(existing, candidates)))
    /\ (fpc = "padded" /\ existing = ScenarioBase) =>
          /\ Len(out) = 49
          /\ SubSeq(out, 1, 40) = ScenarioBase
          /\ SubSeq(out, 41, 49) =
                [k \in 1..9 |->
                   candidates[NthPosition(
                       {p \in 1..20 : \A e \in 1..40 :
                            ~EqualCI(candidates[p], ScenarioBase[e])}, k)]]

\* C4 witness: the adobe step of the scenario run has padded 40 terms to 49
C4_Witness ==
    /\ fpc = "padded"
    /\ existing = ScenarioBase
    /\ Cardinality({p \in 1..20 : \E e \in 1..40 :
                       EqualCI(candidates[p], existing[e])}) = 5
    /\ Len(out) = ADOBE_MAX

-----------------------------------------------------------------------------
(* The translation specification *)

\* source keywords, and the characters of a response
SourceWords == { <<"a">>, <<"b">>, <<"c">> }
RawChars == {"x", ",", " "}

Responses(n) ==
    [kind : {"ok"}, content : SeqsUpTo(RawChars, n)]
        \cup [kind : FailureKinds, content : {<<>>}]

\* a list of more than 50 keywords
LongWords == [i \in 1..51 |-> Kw(i)]

\* the English lists of a run that has reached the translation stage
RunLists == { <<>>, <<<<"a">>>>, <<<<"a">>, <<"b">>>> }
Platforms == {"adobe", "shutter", "istock"}
NoMetadata == [p \in {} |-> <<>>]

TrIdle ==
    /\ tpc = "off"
    /\ kws = <<>> /\ tr_chunk = <<>> /\ tr_ret = <<>>
    /\ tr_resp = [kind |-> "none", content |-> <<>>]
    /\ run_en = [p \in Platforms |-> <<>>]
    /\ run_tr = [p \in Platforms |-> <<>>]
    /\ run_failed = {}
    /\ metadata = NoMetadata

TrInit ==
    /\ tr_chunk = <<>> /\ tr_ret = <<>>
    /\ tr_resp = [kind |-> "none", content |-> <<>>]
    /\ run_tr = [p \in Platforms |-> <<>>]
    /\ run_failed = {}
    /\ metadata = NoMetadata
    /\ \/ /\ tpc = "input"
          /\ kws \in SeqsUpTo(SourceWords, MaxWords) \cup {LongWords}
          /\ run_en = [p \in Platforms |-> <<>>]
       \/ /\ tpc = "translating_adobe"
          /\ kws = <<>>
          /\ run_en \in [Platforms -> RunLists]

\* api_translate_kw builds the chunk and sends the request
TranslateRequest ==
    /\ tpc = "input"
    /\ tr_chunk' = TranslateChunk(kws)
    /\ tpc' = "waiting"
    /\ UNCHANGED <<kws, tr_resp, tr_ret, run_en, run_tr, run_failed, metadata>>
    /\ UNCHANGED notTr

\* the service answers or fails, and api_translate_kw returns
TranslateReturn ==
    /\ tpc = "waiting"
    /\ \E resp \in Responses(MaxRaw) :
          /\ tr_resp' = resp
          /\ tr_ret' = api_translate_kw(kws, resp).val
    /\ tpc' = "returned"
    /\ UNCHANGED <<kws, tr_chunk, run_en, run_tr, run_failed, metadata>>
    /\ UNCHANGED notTr

\* run, lines 852-854: one api_translate_kw call per platform; an exception
\* leaving the call would end the run in the except branch (line 869)
RunTranslate(p, next) ==
    /\ tpc = "translating_" \o p
    /\ \E resp \in Responses(1) :
          LET r == api_translate_kw(run_en[p], resp)
          IN  /\ run_failed' = IF resp.kind = "ok" THEN run_failed
                               ELSE run_failed \cup {p}
              /\ IF r.exc
                 THEN /\ tpc' = "failed"
                      /\ UNCHANGED run_tr
                 ELSE /\ tpc' = next
                      /\ run_tr' = [run_tr EXCEPT ![p] = r.val]
    /\ UNCHANGED <<kws, tr_chunk, tr_resp, tr_ret, run_en, metadata>>
    /\ UNCHANGED notTr

RunTranslateAdobe == RunTranslate("adobe", "translating_shutter")
RunTranslateShutter == RunTranslate("shutter", "translating_istock")
RunTranslateIstock == RunTranslate("istock", "assembling")

\* run, lines 856-864: self.metadata is assigned
RunAssemble ==
    /\ tpc = "assembling"
    /\ metadata' = [adobe_en |-> run_en["adobe"], adobe_tr |-> run_tr["adobe"],
                    shutter_en |-> run_en["shutter"],
                    shutter_tr |-> run_tr["shutter"],
                    istock_en |-> run_en["istock"],
                    istock_tr |-> run_tr["istock"]]
    /\ tpc' = "done"
    /\ UNCHANGED <<kws, tr_chunk, tr_resp, tr_ret, run_en, run_tr, run_failed>>
    /\ UNCHANGED notTr

TrNext ==
    \/ TranslateRequest
    \/ TranslateReturn
    \/ RunTranslateAdobe
    \/ RunTranslateShutter
    \/ RunTranslateIstock
    \/ RunAssemble


-----------------------------------------------------------------------------
(* Claims about api_translate_kw *)

\* C5: whatever the number of words (0, more than 50) and whatever the
\* service answers, api_translate_kw returns exactly len(words) entries.
C5_SameLength == tpc = "returned" => Len(tr_ret) = Len(kws)

\* C5 witness: more than 50 words, and an answer with fewer parts
C5_Witness ==
    /\ tpc = "returned"
    /\ Len(kws) > TRANSLATE_CHUNK
    /\ tr_resp.kind = "ok"
    /\ Len(TranslateParts(Strip(tr_resp.content))) = 2

\* C6: when the answer has fewer parts than there are words, every position
\* below the number of parts holds that part and every position from there
\* on holds the source word of the same position.
C6_FallbackSamePosition ==
    (tpc = "returned" /\ tr_resp.kind = "ok") =>
        LET parts == TranslateParts(Strip(tr_resp.content))
        IN  Len(parts) < Len(kws) =>
              \A i \in 1..Len(kws) :
                 tr_ret[i] = IF i <= Len(parts) THEN parts[i] ELSE kws[i]

\* C7: a failed request makes api_translate_kw return its input list, and a
\* run in which the translation requests fail is never Failed and ends with
\* each localized list equal to its English list.
C7_FailureReturnsInput ==
    /\ (tpc = "returned" /\ tr_resp.kind \in FailureKinds) => tr_ret = kws
    /\ tpc # "failed"
    /\ tpc = "done" =>
          \A p \in run_failed :
             /\ metadata[p \o "_tr"] = metadata[p \o "_en"]
             /\ metadata[p \o "_en"] = run_en[p]

\* C7 witness: a run whose three translation requests all failed is done
C7_Witness ==
    /\ tpc = "done"
    /\ run_failed = Platforms
    /\ \A p \in Platforms : run_en[p] # <<>>

-----------------------------------------------------------------------------
(* The iStock vocabulary mapping, src/main.py:74-76 and 1025-1030 *)

\* dict.get(key, default) on a map given as a function
DictGet(d, key, default) == IF key \in DOMAIN d THEN d[key] ELSE default

\* a variant that looks the untrimmed lowercase term up
map_istock_untrimmed(d, terms) ==
    [i \in 1..Len(terms) |-> DictGet(d, Lower(terms[i]), terms[i])]

\* a variant that looks the term up without lowercasing it
map_istock_cased(d, terms) ==
    [i \in 1..Len(terms) |-> DictGet(d, Strip(terms[i]), terms[i])]

\* map_istock = lambda kws: [load_istock().get(k.lower().strip(),k) for k in kws]
\* with d the persisted map that load_istock() reads
map_istock(d, terms) ==
    [i \in 1..Len(terms) |-> DictGet(d, Strip(Lower(terms[i])), terms[i])]

\* App._apply_istock on the iStock English entries: k = e.get().strip().lower();
\* an entry whose k is in the map is replaced, the others are left alone
apply_istock(d, entries) ==
    [i \in 1..Len(entries) |->
        LET k == Lower(Strip(entries[i]))
        IN  IF k \in DOMAIN d THEN d[k] ELSE entries[i]]

\* Scenario 1 of the specification: {"dog": "Dog (domestic)"}, ["dog","cat"]
Dog == <<"d", "o", "g">>
Cat == <<"c", "a", "t">>
DogDomestic == <<"D", "o", "g", " ", "(", "d", "o", "m", "e", "s", "t", "i", "c", ")">>
ExampleMap == [k \in {Dog} |-> DogDomestic]

\* keys and replacement terms of the vocabulary maps, and the keywords
MapKeys == { <<"a">>, <<"b">>, <<"A">> }
MapValues == { <<"b">>, <<"B">>, <<"A">> }
Terms == { <<"a">>, <<"A">>, <<" ", "a">>, <<"b">>, <<"c">> }
VocabularyMaps == UNION {[K -> MapValues] : K \in SUBSET MapKeys}

IstIdle ==
    /\ ipc = "off"
    /\ istock_map = [k \in {} |-> <<>>]
    /\ istock_raw = <<>> /\ istock_en = <<>> /\ istock_en2 = <<>>

IstInit ==
    /\ ipc = "input"
    /\ istock_en = <<>> /\ istock_en2 = <<>>
    /\ \/ /\ istock_map \in VocabularyMaps
          /\ istock_raw \in SeqsUpTo(Terms, MaxTerms)
       \/ /\ istock_map = ExampleMap
          /\ istock_raw = <<Dog, Cat>>

\* run, line 848: istock_en = map_istock(istock_raw)
IstockMap ==
    /\ ipc = "input"
    /\ istock_en' = map_istock(istock_map, istock_raw)
    /\ ipc' = "mapped"
    /\ UNCHANGED <<istock_map, istock_raw, istock_en2>>
    /\ UNCHANGED notIst

\* map_istock applied to its own result, the map unchanged
IstockMapAgain ==
    /\ ipc = "mapped"
    /\ istock_en2' = map_istock(istock_map, istock_en)
    /\ ipc' = "remapped"
    /\ UNCHANGED <<istock_map, istock_raw, istock_en>>
    /\ UNCHANGED notIst

\* the operator presses the apply button on the form filled with istock_en
IstockApplyButton ==
    /\ ipc = "mapped"
    /\ istock_en2' = apply_istock(istock_map, istock_en)
    /\ ipc' = "reapplied"
    /\ UNCHANGED <<istock_map, istock_raw, istock_en>>
    /\ UNCHANGED notIst

IstNext == IstockMap \/ IstockMapAgain \/ IstockApplyButton

-----------------------------------------------------------------------------
(* Claims about map_istock *)

\* C8 as stated: the result has the length of the list, and position i is
\* map[lowercase(term_i)] when that key is in the map, term_i otherwise.
C8_LowercaseLookup ==
    ipc = "mapped" =>
        /\ Len(istock_en) = Len(istock_raw)
        /\ \A i \in 1..Len(istock_raw) :
              istock_en[i] =
                 IF Lower(istock_raw[i]) \in DOMAIN istock_map
                 THEN istock_map[Lower(istock_raw[i])]
                 ELSE istock_raw[i]

\* C8 amended: the key that is looked up is the lowercase form of the term
\* with surrounding whitespace removed; position i is the mapped term when
\* that key is in the map and term_i, untouched, otherwise; for the map
\* {"dog": "Dog (domestic)"}, ["dog","cat"] gives ["Dog (domestic)","cat"].
C8_TrimmedLowercaseLookup ==
    ipc = "mapped" =>
        /\ Len(istock_en) = Len(istock_raw)
        /\ \A i \in 1..Len(istock_raw) :
              LET key == Strip(Lower(istock_raw[i]))
              IN  istock_en[i] = IF key \in DOMAIN istock_map
                                 THEN istock_map[key]
                                 ELSE istock_raw[i]
        /\ (istock_map = ExampleMap /\ istock_raw = <<Dog, Cat>>)
              => istock_en = <<DogDomestic, Cat>>

\* C8 witness: a list with one term that is mapped through its trimmed
\* lowercase key and one term that is kept
C8_Witness ==
    /\ ipc = "mapped"
    /\ \E i, j \in 1..Len(istock_raw) :
          /\ istock_raw[i] # Strip(Lower(istock_raw[i]))
          /\ Strip(Lower(istock_raw[i])) \in DOMAIN istock_map
          /\ istock_en[i] = istock_map[Strip(Lower(istock_raw[i]))]
          /\ Strip(Lower(istock_raw[j])) \notin DOMAIN istock_map
          /\ istock_en[j] = istock_raw[j]

\* C9 as stated: with the map unchanged, applying the mapping to its own
\* result changes nothing, whatever the map.
C9_ApplyTwice == ipc \in {"remapped", "reapplied"} => istock_en2 = istock_en

\* no replacement term is, trimmed and lowercased, a key of the map that is
\* mapped to a different term
NoChain(d) ==
    \A k \in DOMAIN d :
       Strip(Lower(d[k])) \in DOMAIN d => d[Strip(Lower(d[k]))] = d[k]

\* C9 amended: with the map unchanged, applying the mapping twice yields the
\* same list as applying it once provided no replacement term is itself
\* (trimmed, in lowercase) a key of the map mapped to a different term.
C9_ApplyTwiceNoChain ==
    (ipc \in {"remapped", "reapplied"} /\ NoChain(istock_map))
        => istock_en2 = istock_en

\* C9 witness: a replacement was made by the first application and the map
\* holds its lowercase form as a key, mapped to the same term
C9_Witness ==
    /\ ipc = "remapped"
    /\ NoChain(istock_map)
    /\ \E i \in 1..Len(istock_raw) :
          /\ istock_en[i] # istock_raw[i]
          /\ Strip(Lower(istock_en[i])) \in DOMAIN istock_map

-----------------------------------------------------------------------------
(* The record table, src/main.py:79-99 *)

\* A column name is written as a string of one symbol: it holds no
\* character the CSV format treats specially.
FILE_PATH == <<"file_path">>
CSV_H == << FILE_PATH, <<"file_name">>, <<"created_at">>,
            <<"title_en">>, <<"title_tr">>,
            <<"description_en">>, <<"description_tr">>,
            <<"adobe_keywords_en">>, <<"adobe_keywords_tr">>,
            <<"shutter_keywords_en">>, <<"shutter_keywords_tr">>,
            <<"istock_keywords_en">>, <<"istock_keywords_tr">> >>

Columns == {CSV_H[i] : i \in 1..Len(CSV_H)}

\* Python's None as a field value (DictReader's restval for a short row)
NoneValue == <<"<None>">>

Quote == "\""
Delimiter == ","
IsNewline(c) == c \in {"\r", "\n"}

\* csv.writer, excel dialect, QUOTE_MINIMAL: a field is quoted when it holds
\* the delimiter, the quote character or a line terminator character
NeedsQuote(f) ==
    \E i \in 1..Len(f) : f[i] = Delimiter \/ f[i] = Quote \/ IsNewline(f[i])

\* doublequote: every quote character inside a quoted field is written twice
RECURSIVE DoubleQuotes(_)
DoubleQuotes(f) ==
    IF f = <<>> THEN <<>>
    ELSE IF Head(f) = Quote THEN <<Quote, Quote>> \o DoubleQuotes(Tail(f))
    ELSE <<Head(f)>> \o DoubleQuotes(Tail(f))

\* a variant that writes the field as it is, without quoting
WriteFieldRaw(f, only) == f

\* one field as csv.writer writes it (a lone empty field is quoted too)
WriteField(f, only) ==
    IF NeedsQuote(f) \/ (only /\ f = <<>>)
    THEN <<Quote>> \o DoubleQuotes(f) \o <<Quote>>
    ELSE f

\* csv.writer.writerow: the fields joined by the delimiter, then "\r\n"
WriteRow(fields) ==
    Join([i \in 1..Len(fields) |-> WriteField(fields[i], Len(fields) = 1)],
         <<Delimiter>>) \o <<"\r", "\n">>

\* csv.DictWriter._dict_to_list: the values in fieldnames order, restval ""
\* for a missing key, None written as the empty string
DictRow(rec) ==
    [i \in 1..Len(CSV_H) |->
        IF CSV_H[i] \in DOMAIN rec /\ rec[CSV_H[i]] # NoneValue
        THEN rec[CSV_H[i]] ELSE <<>>]

\* w.writeheader(); [w.writerow(r) for r in db.values()]
RECURSIVE WriteRows(_)
WriteRows(db) ==
    IF db = <<>> THEN <<>> ELSE WriteRow(DictRow(Head(db))) \o WriteRows(Tail(db))

WriteTable(db) == WriteRow(CSV_H) \o WriteRows(db)

\* csv.reader on a file opened with newline="": the parser's state, with
\* the field, the row and the rows read so far
CsvStart == [st |-> "START_RECORD", field |-> <<>>, row |-> <<>>, rows |-> <<>>]

\* the field under construction ends, the row goes on
CsvEndField(p) ==
    [st |-> "START_FIELD", field |-> <<>>, row |-> Append(p.row, p.field),
     rows |-> p.rows]

\* the field and the row end at a line terminator
CsvEndRow(p) ==
    [st |-> "START_RECORD", field |-> <<>>, row |-> <<>>,
     rows |-> Append(p.rows, Append(p.row, p.field))]

CsvAdd(p, c, st) == [p EXCEPT !.st = st, !.field = Append(p.field, c)]

\* one character at the start of a field
CsvStartField(p, c) ==
    IF IsNewline(c) THEN CsvEndRow(p)
    ELSE IF c = Quote THEN [p EXCEPT !.st = "IN_QUOTED_FIELD"]
    ELSE IF c = Delimiter THEN CsvEndField(p)
    ELSE CsvAdd(p, c, "IN_FIELD")

\* the parser's transition on one character: a row ends at a line
\* terminator outside quotes; line terminators between rows yield no row
CsvStep(p, c) ==
    CASE p.st = "START_RECORD" ->
            IF IsNewline(c) THEN p ELSE CsvStartField(p, c)
      [] p.st = "START_FIELD" -> CsvStartField(p, c)
      [] p.st = "IN_FIELD" ->
            IF IsNewline(c) THEN CsvEndRow(p)
            ELSE IF c = Delimiter THEN CsvEndField(p)
            ELSE CsvAdd(p, c, "IN_FIELD")
      [] p.st = "IN_QUOTED_FIELD" ->
            IF c = Quote THEN [p EXCEPT !.st = "QUOTE_IN_QUOTED_FIELD"]
            ELSE CsvAdd(p, c, "IN_QUOTED_FIELD")
      [] p.st = "QUOTE_IN_QUOTED_FIELD" ->
            IF c = Quote THEN CsvAdd(p, Quote, "IN_QUOTED_FIELD")
            ELSE IF c = Delimiter THEN CsvEndField(p)
            ELSE IF IsNewline(c) THEN CsvEndRow(p)
            ELSE CsvAdd(p, c, "IN_FIELD")

CsvStates == {"START_RECORD", "START_FIELD", "IN_FIELD", "IN_QUOTED_FIELD",
              "QUOTE_IN_QUOTED_FIELD"}

\* the parser run over the characters s[lo..hi], left to right: the range is
\* halved, and the left half is evaluated before the right one starts, only
\* to keep the evaluation shallow
RECURSIVE CsvRun(_, _, _, _)
CsvRun(s, lo, hi, p) ==
    IF lo > hi THEN p
    ELSE IF lo = hi THEN CsvStep(p, s[lo])
    ELSE LET mid == (lo + hi) \div 2
             left == CsvRun(s, lo, mid, p)
         IN  IF left.st \in CsvStates THEN CsvRun(s, mid + 1, hi, left) ELSE left

\* the rows csv.reader yields for the text s; a row in progress at the end
\* of the text is yielded too
CsvRead(s) ==
    LET p == CsvRun(s, 1, Len(s), CsvStart)
    IN  IF p.st = "START_RECORD" THEN p.rows
        ELSE Append(p.rows, Append(p.row, p.field))

\* csv.DictReader: one dict per row after the header row, keyed by the
\* header's names; a missing field reads as None
RowDict(header, row) ==
    [h \in {header[i] : i \in 1..Len(header)} |->
        LET i == CHOOSE j \in 1..Len(header) : header[j] = h
        IN  IF i <= Len(row) THEN row[i] ELSE NoneValue]

\* db[key] = rec on a dict kept in insertion order, as the list of its values
DictSet(db, rec) ==
    IF \E i \in 1..Len(db) : db[i][FILE_PATH] = rec[FILE_PATH]
    THEN [i \in 1..Len(db) |->
             IF db[i][FILE_PATH] = rec[FILE_PATH] THEN rec ELSE db[i]]
    ELSE Append(db, rec)

\* {r["file_path"]: r for r in csv.DictReader(f)}
RECURSIVE DictOfRows(_, _, _)
DictOfRows(header, rows, db) ==
    IF rows = <<>> THEN db
    ELSE DictOfRows(header, Tail(rows), DictSet(db, RowDict(header, Head(rows))))

NoFile == [exists |-> FALSE, data |-> <<>>]

\* load_db, lines 87-91, on the folder's _metadata.csv
load_db(file) ==
    IF ~file.exists THEN <<>>
    ELSE LET rows == CsvRead(file.data)
         IN  IF rows = <<>> THEN <<>>
             ELSE DictOfRows(rows[1], Tail(rows), <<>>)

\* a variant that writes the new record alone instead of the updated table
save_db_alone(file, record) ==
    [exists |-> TRUE, data |-> WriteTable(<<record>>)]

\* save_db, lines 93-99: the folder's file after the call
save_db(file, record) ==
    [exists |-> TRUE, data |-> WriteTable(DictSet(load_db(file), record))]

\* db[key] of a loaded table
HasKey(db, key) == \E i \in 1..Len(db) : db[i][FILE_PATH] = key
Lookup(db, key) == db[CHOOSE i \in 1..Len(db) : db[i][FILE_PATH] = key]

-----------------------------------------------------------------------------
(* The record table specification *)

Folders == {"/f", "/g"}
FieldChars == {"x", ",", "\"", "\n"}
KeyValues == { <<"p">>, <<"q", ",">>, <<"\"">> }
DescriptionValues == { <<>>, <<"\r", "\n", "x">>, <<" ">> }

\* a record with the fixed column schema, as App._build_rec builds it
Record(path, title, desc) ==
    [h \in Columns |->
        IF h = FILE_PATH THEN path
        ELSE IF h = <<"file_name">> THEN <<"n">>
        ELSE IF h = <<"created_at">> THEN <<"2", "0", "2", "6">>
        ELSE IF h = <<"title_en">> THEN title
        ELSE IF h = <<"description_en">> THEN desc
        ELSE IF h = <<"adobe_keywords_en">> THEN <<"a", ",", " ", "b">>
        ELSE <<>>]

Records ==
    {Record(k, t, d) : k \in KeyValues, t \in SeqsUpTo(FieldChars, MaxField),
                       d \in DescriptionValues}

\* the tables a folder can hold before the call: none, or what earlier
\* save_db calls have written
RecordA == Record(<<"p">>, <<"x", "\"">>, <<"\r", "\n", "x">>)
RecordB == Record(<<"q", ",">>, <<",">>, <<>>)
TableA == save_db(NoFile, RecordA)
TableAB == save_db(TableA, RecordB)
PriorTables == {NoFile, TableA, TableAB}

DbIdle ==
    /\ dpc = "off"
    /\ disk = [f \in Folders |-> NoFile]
    /\ db_folder = "/f"
    /\ db_record = Record(<<>>, <<>>, <<>>)
    /\ db_loaded = <<>>

DbInit ==
    /\ dpc = "start"
    /\ disk \in [Folders -> PriorTables]
    /\ db_folder \in Folders
    /\ db_record \in Records
    /\ db_loaded = <<>>

\* save_db(folder, record)
DbSave ==
    /\ dpc = "start"
    /\ disk' = [disk EXCEPT ![db_folder] = save_db(disk[db_folder], db_record)]
    /\ dpc' = "saved"
    /\ UNCHANGED <<db_folder, db_record, db_loaded>>
    /\ UNCHANGED notDb

\* load_db(folder)
DbLoad ==
    /\ dpc = "saved"
    /\ db_loaded' = load_db(disk[db_folder])
    /\ dpc' = "loaded"
    /\ UNCHANGED <<disk, db_folder, db_record>>
    /\ UNCHANGED notDb

DbNext == DbSave \/ DbLoad

-----------------------------------------------------------------------------
(* Claims about load_db / save_db *)

\* C10: save(folder, r) followed by load(folder) yields a map whose entry
\* under key r.file_path equals r, field for field, whether or not the
\* folder already had a table.
C10_RoundTrip ==
    dpc = "loaded" =>
        /\ HasKey(db_loaded, db_record[FILE_PATH])
        /\ Lookup(db_loaded, db_record[FILE_PATH]) = db_record

\* C10 witness: a record whose fields hold a quote, a comma and line breaks
\* was saved into a folder that already had a table with other records
C10_Witness ==
    /\ dpc = "loaded"
    /\ Len(db_loaded) = 3
    /\ db_record[FILE_PATH] = <<"\"">>
    /\ db_record[<<"title_en">>] = <<",", "\n">>
    /\ db_record[<<"description_en">>] = <<"\r", "\n", "x">>

-----------------------------------------------------------------------------
(* A sequence of save_db calls into one folder, src/main.py:93-99 *)

MaxSaves == 3

\* "/f/1.jpg" and "/f/2.jpg" as strings
Path1 == <<"/", "f", "/", "1", ".", "j", "p", "g">>
Path2 == <<"/", "f", "/", "2", ".", "j", "p", "g">>

SaveKeys == {Path1, Path2, <<"q", ",">>}
SaveTitles == { <<"x">>, <<",", "\"">>, <<"\n">> }
SaveRecords == {Record(k, t, <<>>) : k \in SaveKeys, t \in SaveTitles}

SvIdle ==
    /\ sv_prior = NoFile
    /\ sv_file = NoFile
    /\ sv_log = <<>>

SvInit ==
    /\ sv_prior \in PriorTables
    /\ sv_file = sv_prior
    /\ sv_log = <<>>

\* one more save_db(folder, record), after the previous one has returned
SvSave ==
    /\ Len(sv_log) < MaxSaves
    /\ \E rec \in SaveRecords :
          /\ sv_file' = save_db(sv_file, rec)
          /\ sv_log' = Append(sv_log, rec)
    /\ UNCHANGED sv_prior
    /\ UNCHANGED notSv

SvNext == SvSave

-----------------------------------------------------------------------------
(* Claims about sequences of saves *)

\* the keys saved so far, and the last record saved under a key
SavedKeys == {sv_log[i][FILE_PATH] : i \in 1..Len(sv_log)}
LastSaved(key) ==
    sv_log[CHOOSE i \in 1..Len(sv_log) :
              /\ sv_log[i][FILE_PATH] = key
              /\ \A j \in (i + 1)..Len(sv_log) : sv_log[j][FILE_PATH] # key]

\* C11: after any sequence of saves into one folder, one after the other,
\* load(folder) holds for every key ever saved exactly the record of the
\* last save for that key, every record that was stored under a key no save
\* touched is unchanged, and nothing else is in the table; saving A for
\* /f/1.jpg and then B for /f/2.jpg leaves both retrievable unchanged.
C11_SaveChangesOneKey ==
    LET db == load_db(sv_file)
        prior == load_db(sv_prior)
    IN  /\ \A key \in SavedKeys :
              HasKey(db, key) /\ Lookup(db, key) = LastSaved(key)
        /\ \A i \in 1..Len(prior) :
              prior[i][FILE_PATH] \notin SavedKeys =>
                 /\ HasKey(db, prior[i][FILE_PATH])
                 /\ Lookup(db, prior[i][FILE_PATH]) = prior[i]
        /\ \A i \in 1..Len(db) :
              \/ db[i][FILE_PATH] \in SavedKeys
              \/ HasKey(prior, db[i][FILE_PATH])
        /\ \A i, j \in 1..Len(db) :
              db[i][FILE_PATH] = db[j][FILE_PATH] => i = j

\* C11 witness: A was saved for /f/1.jpg, then B for /f/2.jpg, then a new
\* record for /f/1.jpg, into a folder whose table held two other records
C11_Witness ==
    /\ Len(sv_log) = 3
    /\ Len(load_db(sv_prior)) = 2
    /\ sv_log[1][FILE_PATH] = Path1
    /\ sv_log[2][FILE_PATH] = Path2
    /\ sv_log[3][FILE_PATH] = Path1
    /\ sv_log[3] # sv_log[1]
    /\ Len(load_db(sv_file)) = 4
    /\ Lookup(load_db(sv_file), Path2) = sv_log[2]

-----------------------------------------------------------------------------
(* The thumbnail cache, src/main.py:102-119 *)

THUMB_W == 244
THUMB_H == 152
PREV_W == 262
PREV_H == 164

MaxThumbCalls == 3
MaxEdits == 1

VIDEO_EXTS == { <<".", "m", "p", "4">>, <<".", "m", "o", "v">>,
                <<".", "a", "v", "i">>, <<".", "m", "k", "v">>,
                <<".", "m", "4", "v">>, <<".", "w", "m", "v">> }

\* Path(file_path).suffix.lower(): from the last dot on
Suffix(path) ==
    LET dots == {i \in 1..Len(path) : path[i] = "."}
    IN  IF dots = {} THEN <<>>
        ELSE Lower(SubSeq(path, CHOOSE i \in dots : \A j \in dots : j <= i,
                          Len(path)))

\* str(n) for n >= 0
DigitChars == <<"0", "1", "2", "3", "4", "5", "6", "7", "8", "9">>
RECURSIVE Digits(_)
Digits(n) ==
    IF n < 10 THEN <<DigitChars[n + 1]>>
    ELSE Append(Digits(n \div 10), DigitChars[(n % 10) + 1])

\* the text f"{file_path}{w}{h}" whose md5 digest names the cache file; the
\* digest is taken to be different for different texts
ThumbKey(path, w, h) == path \o Digits(w) \o Digits(h)

\* what a source file holds: one of two pictures, or nothing that can be
\* decoded (the file was removed)
Pictures == {"v1", "v2"}
Contents == Pictures \cup {"gone"}

\* the canvas of size (w, h) with the picture scaled and centred on it; the
\* empty canvas Image.new("RGB", (w, h), BG)
Canvas(picture, w, h) == [pixels |-> picture, w |-> w, h |-> h]
BlankCanvas(w, h) == [pixels |-> "BG", w |-> w, h |-> h]

\* lines 108-114: the decoded source on its canvas, or an exception
DecodeSource(path, content, w, h) ==
    IF Suffix(path) \in VIDEO_EXTS
    THEN Return(IF content \in Pictures THEN Canvas(content, w, h)
                ELSE BlankCanvas(w, h))
    ELSE IF content \in Pictures THEN Return(Canvas(content, w, h))
    ELSE Raise

VideoPath == <<"/", "f", "/", "3", ".", "M", "P", "4">>
ThumbPaths == {Path1, VideoPath}

\* the calls the program makes: the list thumbnails of _load_thumbs_bg and
\* the preview of _select_file._show
ThumbInputs ==
    { <<Path1, THUMB_W, THUMB_H>>, <<Path1, PREV_W, PREV_H>>,
      <<VideoPath, THUMB_W, THUMB_H>> }

\* the background threads that call get_thumb: every folder load starts a
\* list loader (line 719) and every selection a preview loader (line 786),
\* and nothing keeps two of them from running side by side
ThumbThreads == {"thread1", "thread2"}

NoCanvas == [pixels |-> "none", w |-> 0, h |-> 0]
\* a cache file that Image.open cannot decode
Corrupt == [pixels |-> "corrupt", w |-> 0, h |-> 0]
\* a call: its position, its inputs, the canvas drawn, the buffer returned,
\* whether a call with the same inputs has returned before, and the
\* statement that raised ("source": lines 108-114, "read": line 107,
\* "write": line 118)
NoCall == [pc |-> "idle", inp |-> <<<<>>, 0, 0>>, img |-> NoCanvas,
           ret |-> NoCanvas, later |-> FALSE, exc |-> "none"]
NoCache == [k \in {} |-> NoCanvas]

ThIdle ==
    /\ th_source = [p \in ThumbPaths |-> "gone"]
    /\ th_cache = NoCache
    /\ th_call = [t \in ThumbThreads |-> NoCall]
    /\ th_calls = 0
    /\ th_edits = 0
    /\ th_first = [i \in ThumbInputs |-> NoCanvas]

ThInit ==
    /\ th_source \in [ThumbPaths -> Contents]
    /\ th_cache = NoCache
    /\ th_call = [t \in ThumbThreads |-> NoCall]
    /\ th_calls = 0
    /\ th_edits = 0
    /\ th_first = [i \in ThumbInputs |-> NoCanvas]

CallKey(c) == ThumbKey(c.inp[1], c.inp[2], c.inp[3])

\* a thread calls get_thumb(path, w, h); the call is a later one when a call
\* with the same inputs has already returned a buffer
ThumbStart(t) ==
    /\ th_call[t].pc \in {"idle", "returned", "raised"}
    /\ th_calls < MaxThumbCalls
    /\ \E inp \in ThumbInputs :
          th_call' = [th_call EXCEPT ![t] =
                         [pc |-> "exists", inp |-> inp, img |-> NoCanvas,
                          ret |-> NoCanvas,
                          later |-> th_first[inp] # NoCanvas,
                          exc |-> "none"]]
    /\ th_calls' = th_calls + 1
    /\ UNCHANGED <<th_source, th_cache, th_edits, th_first>>
    /\ UNCHANGED notTh

\* line 106: if cp.exists()
ThumbExists(t) ==
    /\ th_call[t].pc = "exists"
    /\ th_call' = [th_call EXCEPT ![t].pc =
                      IF CallKey(th_call[t]) \in DOMAIN th_cache
                      THEN "open" ELSE "decode"]
    /\ UNCHANGED <<th_source, th_cache, th_calls, th_edits, th_first>>
    /\ UNCHANGED notTh

\* the buffer a call returns is recorded for its inputs if it is the first
ThumbReturned(c, buf) ==
    IF th_first[c.inp] = NoCanvas THEN [th_first EXCEPT ![c.inp] = buf]
    ELSE th_first

\* line 107: return Image.open(cp).convert("RGB"); PNG is lossless, the
\* buffer read is the buffer that was saved; the statement raises when the
\* file cannot be read or decoded, and get_thumb has no handler for it
ThumbOpen(t) ==
    /\ th_call[t].pc = "open"
    /\ LET buf == th_cache[CallKey(th_call[t])]
       IN  \E readable \in BOOLEAN :
              IF readable /\ buf # Corrupt
              THEN /\ th_call' = [th_call EXCEPT ![t].pc = "returned",
                                                 ![t].ret = buf]
                   /\ th_first' = ThumbReturned(th_call[t], buf)
              ELSE /\ th_call' = [th_call EXCEPT ![t].pc = "raised",
                                                 ![t].exc = "read"]
                   /\ th_first' = th_first
    /\ UNCHANGED <<th_source, th_cache, th_calls, th_edits>>
    /\ UNCHANGED notTh

\* lines 108-117: the source is decoded and drawn on the canvas
ThumbDecode(t) ==
    /\ th_call[t].pc = "decode"
    /\ LET c == th_call[t]
           r == DecodeSource(c.inp[1], th_source[c.inp[1]], c.inp[2], c.inp[3])
       IN  th_call' = IF r.exc THEN [th_call EXCEPT ![t].pc = "raised",
                                                    ![t].exc = "source"]
                      ELSE [th_call EXCEPT ![t].pc = "save", ![t].img = r.val]
    /\ UNCHANGED <<th_source, th_cache, th_calls, th_edits, th_first>>
    /\ UNCHANGED notTh

\* the cache with the entry of call c set
CachePut(c, entry) ==
    [k \in DOMAIN th_cache \cup {CallKey(c)} |->
        IF k = CallKey(c) THEN entry ELSE th_cache[k]]

\* What canvas.save(cp, "PNG") does to the cache file: it is written
\* ("ok"); it cannot be opened for writing, or the library removes the file
\* it had created, and the cache stays as it was ("unopened"); or the write
\* stops part way and leaves a file that cannot be decoded ("unwritten")
ThumbSaveOutcomes == {"ok", "unopened", "unwritten"}

\* lines 118-119: canvas.save(cp, "PNG"); return canvas; when the save
\* raises, get_thumb raises
ThumbSave(t) ==
    /\ th_call[t].pc = "save"
    /\ LET c == th_call[t]
       IN  \E result \in ThumbSaveOutcomes :
              IF result = "ok"
              THEN /\ th_cache' = CachePut(c, c.img)
                   /\ th_call' = [th_call EXCEPT ![t].pc = "returned",
                                                 ![t].ret = c.img]
                   /\ th_first' = ThumbReturned(c, c.img)
              ELSE /\ th_cache' = IF result = "unwritten"
                                  THEN CachePut(c, Corrupt) ELSE th_cache
                   /\ th_call' = [th_call EXCEPT ![t].pc = "raised",
                                                 ![t].exc = "write"]
                   /\ th_first' = th_first
    /\ UNCHANGED <<th_source, th_calls, th_edits>>
    /\ UNCHANGED notTh

\* somebody outside the program replaces or removes a source file
SourceEdit ==
    /\ th_edits < MaxEdits
    /\ \E p \in ThumbPaths, c \in Contents :
          /\ c # th_source[p]
          /\ th_source' = [th_source EXCEPT ![p] = c]
    /\ th_edits' = th_edits + 1
    /\ UNCHANGED <<th_cache, th_call, th_calls, th_first>>
    /\ UNCHANGED notTh

ThNext ==
    \/ \E t \in ThumbThreads :
          \/ ThumbStart(t)
          \/ ThumbExists(t)
          \/ ThumbOpen(t)
          \/ ThumbDecode(t)
          \/ ThumbSave(t)
    \/ SourceEdit

-----------------------------------------------------------------------------
(* Claims about get_thumb *)

\* C12: once a call thumbnail(path, w, h) has returned, every later call
\* with the same inputs returns the identical buffer, from the cache and
\* without decoding the source again, also when the source file was changed
\* or removed in between.
C12_CachedForever ==
    \A t \in ThumbThreads :
       th_call[t].later =>
          /\ th_call[t].pc \notin {"decode", "save"}
          /\ th_call[t].pc = "returned" =>
                th_call[t].ret = th_first[th_call[t].inp]

\* C22: a failure of the thumbnail cache never makes get_thumb fail: a call
\* that has raised has raised while decoding the source, never while
\* reading an existing cache file or while writing the cache file.
C22_CacheFailureDegrades ==
    \A t \in ThumbThreads :
       th_call[t].pc = "raised" => th_call[t].exc = "source"

-----------------------------------------------------------------------------
(* The requests of a generation run, src/main.py:134-207 and 223-229 *)

SHUTTER_MAX == 50
ISTOCK_MAX == 50
\* kws[:50] in api_keywords
KEYWORDS_CUT == 50

\* str.split(sep) computed from the positions of the separator, for texts
\* too long to be split character by character
SplitAt(s, sep) ==
    LET seps == {i \in 1..Len(s) : s[i] = sep}
        n == Cardinality(seps)
        pos == [k \in 0..(n + 1) |->
                   IF k = 0 THEN 0
                   ELSE IF k = n + 1 THEN Len(s) + 1
                   ELSE CHOOSE i \in seps : Cardinality({j \in seps : j < i}) = k - 1]
    IN  [k \in 1..(n + 1) |-> SubSeq(s, pos[k - 1] + 1, pos[k] - 1)]

\* the characters re.sub(r'[\"\'\*\-\n\d\.]', '', raw) removes
IsRemoved(c) ==
    \/ c \in {"\"", "'", "*", "-", "\n", "."}
    \/ \E i \in 1..Len(DigitChars) : DigitChars[i] = c
ReSub(raw) == SelectSeq(raw, LAMBDA c : ~IsRemoved(c))

NonBlank(k) == Strip(k) # <<>>

\* [k.strip() for k in re.sub(...).split(",") if k.strip()]
KeywordsOf(raw) ==
    LET ps == SelectSeq(SplitAt(ReSub(raw), ","), NonBlank)
    IN  [i \in 1..Len(ps) |-> Strip(ps[i])]

\* groq_vision: as groq_text, the content stripped, every failure raised
groq_vision(resp) ==
    IF resp.kind = "ok" THEN Return(Strip(resp.content)) ELSE Raise

\* api_keywords, lines 205-207
api_keywords(resp) ==
    LET r == groq_vision(resp)
    IN  IF r.exc THEN Raise ELSE Return(Take(KeywordsOf(r.val), KEYWORDS_CUT))

\* what the model answers to the title/description prompt: a JSON object,
\* a JSON object inside other text, text without braces, braces around
\* something that is not JSON
MetaContents == {"object", "object_in_text", "no_object", "broken_object"}

\* api_metadata, lines 176-179: re.search(r'\{.*\}') and json.loads
api_metadata(resp) ==
    IF resp.kind # "ok" THEN Raise
    ELSE IF resp.content \in {"object", "object_in_text"} THEN Return("meta")
    ELSE Raise

\* api_everypixels, lines 223-229: the keywords of the reply, every failure
\* (the file cannot be read, the request fails) raised
api_everypixels(resp) ==
    IF resp.kind = "ok" THEN Return(resp.content) ELSE Raise


-----------------------------------------------------------------------------
(* Inputs of the generation run *)

\* n distinct two-letter keywords as one comma-separated line
KeywordLine(n) ==
    [i \in 1..(3 * n - 1) |->
        IF i % 3 = 0 THEN "," ELSE Kw(((i - 1) \div 3) + 1)[((i - 1) % 3) + 1]]

\* lines the vision model returns: more keywords than asked for, the same
\* keyword in two cases, numbering and quotes, nothing
LineLong == KeywordLine(60)
LineRepeats == <<"a", "b", ",", " ", "A", "b", ",", "a", "c">>
LineNumbered == <<"1", ".", " ", "a", "-", "b", ",", "\n", "2", ".", "'", "a", "c", "'", ",">>
LineEmpty == <<>>
KeywordLines == {LineLong, LineRepeats, LineNumbered, LineEmpty}

VisionReplies ==
    [kind : {"ok"}, content : KeywordLines]
        \cup [kind : FailureKinds, content : {<<>>}]

MetaReplies ==
    [kind : {"ok"}, content : MetaContents]
        \cup [kind : FailureKinds, content : {"none"}]

\* keyword lists the tagging service returns
TagLists == { [i \in 1..60 |-> Kw(i)], [i \in 1..49 |-> Kw(i)],
              << <<"a", "b">>, <<"A", "b">> >>, <<>> }
TagReplies ==
    [kind : {"ok"}, content : TagLists]
        \cup [kind : FailureKinds, content : {<<>>}]

\* answers of the translation service inside a run
RunTranslations ==
    [kind : {"ok"}, content : { <<"x">>, <<"x", ",", "y">> }]
        \cup [kind : {"timeout"}, content : {<<>>}]

\* vocabulary maps: none, and one whose replacement term is a keyword too
RunMaps == { [k \in {} |-> <<>>], [k \in {<<"a", "b">>} |-> <<"A", "c">>] }

-----------------------------------------------------------------------------
(* One generation run, App._generate.run, src/main.py:816-875 *)

RequestKinds == {"metadata", "tagging", "adobe_vision", "adobe_pad",
                 "shutterstock", "istock", "translate"}

NoLocals ==
    [pc |-> "off", base_kw |-> <<>>, adobe_en |-> <<>>, shutter_en |-> <<>>,
     istock_raw |-> <<>>, istock_en |-> <<>>, adobe_tr |-> <<>>,
     shutter_tr |-> <<>>, istock_tr |-> <<>>, ep_raised |-> FALSE]

GenIdle ==
    /\ gen_settings = [ep_id |-> <<>>, ep_sec |-> <<>>,
                       istock |-> [k \in {} |-> <<>>]]
    /\ gen = NoLocals
    /\ gen_requests = [k \in RequestKinds |-> 0]
    /\ gen_metadata = NoMetadata
    /\ gen_after = <<>>

\* what the operator has entered for a tagging credential: nothing, or a
\* text
Credentials == { <<>>, <<"x">> }

\* a variant of line 831 that is content with one credential
TaggingConfiguredEither(settings) ==
    settings.ep_id # <<>> \/ settings.ep_sec # <<>>

\* line 831: if ep_id and ep_sec
TaggingConfigured(settings) ==
    settings.ep_id # <<>> /\ settings.ep_sec # <<>>

\* the worker has been started (line 877): each tagging credential is set
\* or not, the vocabulary map is what the operator has taught so far
GenInit ==
    /\ gen_settings \in [ep_id : Credentials, ep_sec : Credentials,
                          istock : RunMaps]
    /\ gen = [NoLocals EXCEPT !.pc = "b64"]
    /\ gen_requests = [k \in RequestKinds |-> 0]
    /\ gen_metadata = NoMetadata
    /\ gen_after = <<>>

Requested(kind) == [gen_requests EXCEPT ![kind] = @ + 1]

\* lines 869-875: the except branch reports the error, the finally branch
\* re-enables the button; nothing else is handed to the interface thread
GenRaise ==
    /\ gen' = [gen EXCEPT !.pc = "failed"]
    /\ gen_after' = gen_after \o <<"showerror", "gen_btn">>
    /\ UNCHANGED gen_metadata

\* a variant that leaves out the Shutterstock request
StageAfterSkipping(stage) ==
    CASE stage = "adobe" -> "istock"
      [] stage = "shutterstock" -> "istock"
      [] stage = "istock" -> "tr_adobe"
      [] stage = "tr_adobe" -> "tr_shutter"
      [] stage = "tr_shutter" -> "tr_istock"
      [] stage = "tr_istock" -> "assemble"

\* the order of the statements of lines 843-856
StageAfter(stage) ==
    CASE stage = "adobe" -> "shutterstock"
      [] stage = "shutterstock" -> "istock"
      [] stage = "istock" -> "tr_adobe"
      [] stage = "tr_adobe" -> "tr_shutter"
      [] stage = "tr_shutter" -> "tr_istock"
      [] stage = "tr_istock" -> "assemble"

\* line 819: b64 = get_b64(self.current_file); an image that cannot be
\* decoded raises
GenPreview ==
    /\ gen.pc = "b64"
    /\ \E decoded \in BOOLEAN :
          IF decoded
          THEN /\ gen' = [gen EXCEPT !.pc = "metadata"]
               /\ UNCHANGED <<gen_metadata, gen_after>>
          ELSE GenRaise
    /\ UNCHANGED <<gen_settings, gen_requests>>
    /\ UNCHANGED notGen

\* line 824: meta = api_metadata(b64, key, hint); lines 828-836 choose the
\* source of the adobe base keywords
GenMetadata ==
    /\ gen.pc = "metadata"
    /\ gen_requests' = Requested("metadata")
    /\ \E resp \in MetaReplies :
          IF api_metadata(resp).exc THEN GenRaise
          ELSE /\ gen' = [gen EXCEPT
                                 !.pc = IF TaggingConfigured(gen_settings)
                                        THEN "tagging" ELSE "adobe_vision"]
               /\ UNCHANGED <<gen_metadata, gen_after>>
    /\ UNCHANGED gen_settings
    /\ UNCHANGED notGen

\* a variant that takes the base keywords without cutting them
WithBaseUncut(base_kw) ==
    [gen EXCEPT !.base_kw = base_kw,
                !.adobe_en = base_kw,
                !.pc = IF Len(base_kw) < ADOBE_MAX
                       THEN "adobe_pad" ELSE StageAfter("adobe")]

\* lines 838-839: adobe_en = base_kw[:ADOBE_MAX]; a short list is padded
WithBase(base_kw) ==
    [gen EXCEPT !.base_kw = base_kw,
                !.adobe_en = Take(base_kw, ADOBE_MAX),
                !.pc = IF Len(Take(base_kw, ADOBE_MAX)) < ADOBE_MAX
                       THEN "adobe_pad" ELSE StageAfter("adobe")]

\* line 832: try: base_kw = api_everypixels(...); except: the vision model
GenTagging ==
    /\ gen.pc = "tagging"
    /\ gen_requests' = Requested("tagging")
    /\ \E resp \in TagReplies :
          LET r == api_everypixels(resp)
          IN  gen' = IF r.exc THEN [gen EXCEPT !.pc = "adobe_vision",
                                               !.ep_raised = TRUE]
                     ELSE WithBase(r.val)
    /\ UNCHANGED <<gen_settings, gen_metadata, gen_after>>
    /\ UNCHANGED notGen

\* lines 833 and 836: base_kw = api_keywords(b64, key, hint, "adobe")
GenAdobeVision ==
    /\ gen.pc = "adobe_vision"
    /\ gen_requests' = Requested("adobe_vision")
    /\ \E resp \in VisionReplies :
          LET r == api_keywords(resp)
          IN  IF r.exc THEN GenRaise
              ELSE /\ gen' = WithBase(r.val)
                   /\ UNCHANGED <<gen_metadata, gen_after>>
    /\ UNCHANGED gen_settings
    /\ UNCHANGED notGen

\* lines 840-841: groq_kw = api_keywords(...); fill_keywords_to_max
GenAdobePad ==
    /\ gen.pc = "adobe_pad"
    /\ gen_requests' = Requested("adobe_pad")
    /\ \E resp \in VisionReplies :
          LET r == api_keywords(resp)
          IN  IF r.exc THEN GenRaise
              ELSE /\ gen' = [gen EXCEPT
                                 !.adobe_en = AdobePad(gen.base_kw, r.val),
                                 !.pc = StageAfter("adobe")]
                   /\ UNCHANGED <<gen_metadata, gen_after>>
    /\ UNCHANGED gen_settings
    /\ UNCHANGED notGen

\* line 844: shutter_en = api_keywords(...)[:SHUTTER_MAX]
GenShutter ==
    /\ gen.pc = "shutterstock"
    /\ gen_requests' = Requested("shutterstock")
    /\ \E resp \in VisionReplies :
          LET r == api_keywords(resp)
          IN  IF r.exc THEN GenRaise
              ELSE /\ gen' = [gen EXCEPT
                                 !.shutter_en = Take(r.val, SHUTTER_MAX),
                                 !.pc = StageAfter("shutterstock")]
                   /\ UNCHANGED <<gen_metadata, gen_after>>
    /\ UNCHANGED gen_settings
    /\ UNCHANGED notGen

\* lines 847-848: istock_raw = api_keywords(...)[:ISTOCK_MAX];
\* istock_en = map_istock(istock_raw)
GenIstock ==
    /\ gen.pc = "istock"
    /\ gen_requests' = Requested("istock")
    /\ \E resp \in VisionReplies :
          LET r == api_keywords(resp)
          IN  IF r.exc THEN GenRaise
              ELSE /\ gen' = [gen EXCEPT
                                 !.istock_raw = Take(r.val, ISTOCK_MAX),
                                 !.istock_en = map_istock(gen_settings.istock,
                                                  Take(r.val, ISTOCK_MAX)),
                                 !.pc = StageAfter("istock")]
                   /\ UNCHANGED <<gen_metadata, gen_after>>
    /\ UNCHANGED gen_settings
    /\ UNCHANGED notGen

\* lines 852-854: one api_translate_kw call, which sends one request
GenTranslate(stage, en, tr) ==
    /\ gen.pc = stage
    /\ gen_requests' = Requested("translate")
    /\ \E resp \in RunTranslations :
          LET r == api_translate_kw(gen[en], resp)
          IN  IF r.exc THEN GenRaise
              ELSE /\ gen' = [gen EXCEPT ![tr] = r.val, !.pc = StageAfter(stage)]
                   /\ UNCHANGED <<gen_metadata, gen_after>>
    /\ UNCHANGED gen_settings
    /\ UNCHANGED notGen

GenTranslateAdobe == GenTranslate("tr_adobe", "adobe_en", "adobe_tr")
GenTranslateShutter == GenTranslate("tr_shutter", "shutter_en", "shutter_tr")
GenTranslateIstock == GenTranslate("tr_istock", "istock_en", "istock_tr")

\* lines 856-867 and 873-875: self.metadata is assigned, the form fill and
\* the autosave are scheduled, then the finally branch
GenAssemble ==
    /\ gen.pc = "assemble"
    /\ gen_metadata' = [adobe_en |-> gen.adobe_en, adobe_tr |-> gen.adobe_tr,
                        shutter_en |-> gen.shutter_en,
                        shutter_tr |-> gen.shutter_tr,
                        istock_en |-> gen.istock_en,
                        istock_tr |-> gen.istock_tr]
    /\ gen_after' = gen_after \o <<"_fill_all", "_do_save", "gen_btn">>
    /\ gen' = [gen EXCEPT !.pc = "done"]
    /\ UNCHANGED <<gen_settings, gen_requests>>
    /\ UNCHANGED notGen

GenNext ==
    \/ GenPreview
    \/ GenMetadata
    \/ GenTagging
    \/ GenAdobeVision
    \/ GenAdobePad
    \/ GenShutter
    \/ GenIstock
    \/ GenTranslateAdobe
    \/ GenTranslateShutter
    \/ GenTranslateIstock
    \/ GenAssemble

-----------------------------------------------------------------------------
(* Claims about the metadata and the requests of a generation run *)

\* C14: in the metadata assembled by a successful run the Adobe English and
\* localized lists have at most 49 entries and the Shutterstock and iStock
\* English and localized lists at most 50 each, whatever the services return.
C14_PlatformMaxima ==
    gen.pc = "done" =>
        /\ Len(gen_metadata.adobe_en) <= 49
        /\ Len(gen_metadata.adobe_tr) <= 49
        /\ Len(gen_metadata.shutter_en) <= 50
        /\ Len(gen_metadata.shutter_tr) <= 50
        /\ Len(gen_metadata.istock_en) <= 50
        /\ Len(gen_metadata.istock_tr) <= 50

\* C14 witness: the tagging service returned 60 keywords and the model 60
\* for Shutterstock and for iStock; the lists were cut to 49, 50 and 50
C14_Witness ==
    /\ gen.pc = "done"
    /\ Len(gen.base_kw) = 60
    /\ Len(gen_metadata.adobe_en) = 49
    /\ Len(gen_metadata.adobe_tr) = 49
    /\ Len(gen_metadata.shutter_en) = 50
    /\ Len(gen_metadata.istock_tr) = 50

\* C15: in the metadata assembled by a successful run none of the three
\* English keyword sets (adobe, shutterstock, istock after the vocabulary
\* mapping) holds two entries equal under case-insensitive comparison.
C15_NoDuplicatesInRun ==
    gen.pc = "done" =>
        /\ NoDuplicatesCI(gen_metadata.adobe_en)
        /\ NoDuplicatesCI(gen_metadata.shutter_en)
        /\ NoDuplicatesCI(gen_metadata.istock_en)

\* the run has reached the translation stage
AtTranslation ==
    gen.pc \in {"tr_adobe", "tr_shutter", "tr_istock", "assemble", "done"}

\* C16: a run that reaches the translation stage has issued exactly one
\* vision-model keyword request for shutterstock and exactly one for istock;
\* for adobe at most one tagging-service request, at most one non-padding
\* vision-model request and at most one padding request are issued, and at
\* most three keyword-translation requests in total.
C16_RequestCounts ==
    /\ AtTranslation =>
          /\ gen_requests["shutterstock"] = 1
          /\ gen_requests["istock"] = 1
    /\ gen_requests["tagging"] <= 1
    /\ gen_requests["adobe_vision"] <= 1
    /\ gen_requests["adobe_pad"] <= 1
    /\ gen_requests["shutterstock"] <= 1
    /\ gen_requests["istock"] <= 1
    /\ gen_requests["translate"] <= 3

\* C16 witness: the tagging request failed, the vision model was asked
\* instead and once more for padding, and all three translations were sent
C16_Witness ==
    /\ gen.pc = "done"
    /\ gen_requests["tagging"] = 1
    /\ gen_requests["adobe_vision"] = 1
    /\ gen_requests["adobe_pad"] = 1
    /\ gen_requests["translate"] = 3

\* the run is past the statements that make the adobe list (lines 828-841)
AdobeMade ==
    gen.pc \in {"shutterstock", "istock", "tr_adobe", "tr_shutter",
                "tr_istock", "assemble", "done"}

\* C24: the tagging service is called only when both tagging credentials
\* are set, the vision model is asked for the adobe base list exactly when
\* the tagging service is not configured or its call failed, and the
\* padding request is issued exactly when the base list cut to 49 has fewer
\* than 49 entries; the Shutterstock and iStock stages add no tagging and
\* no padding request.
C24_AdobeFallbackChain ==
    /\ gen_requests["tagging"] >= 1 =>
          gen_settings.ep_id # <<>> /\ gen_settings.ep_sec # <<>>
    /\ gen_requests["adobe_vision"] >= 1 =>
          \/ gen_settings.ep_id = <<>> \/ gen_settings.ep_sec = <<>>
          \/ gen.ep_raised
    /\ gen_requests["adobe_pad"] >= 1 => Len(Take(gen.base_kw, 49)) < 49
    /\ AdobeMade =>
          /\ gen_requests["tagging"] =
                IF gen_settings.ep_id # <<>> /\ gen_settings.ep_sec # <<>>
                THEN 1 ELSE 0
          /\ gen_requests["adobe_vision"] =
                IF \/ gen_settings.ep_id = <<>> \/ gen_settings.ep_sec = <<>>
                   \/ gen.ep_raised
                THEN 1 ELSE 0
          /\ gen_requests["adobe_pad"] =
                IF Len(Take(gen.base_kw, 49)) < 49 THEN 1 ELSE 0

\* C24 witness: with only one credential set the tagging service was not
\* called, the vision model returned a short base list, the padding
\* request was issued, and the run went on to its end
C24_Witness ==
    /\ gen.pc = "done"
    /\ gen_settings.ep_id # <<>> /\ gen_settings.ep_sec = <<>>
    /\ gen_requests["tagging"] = 0
    /\ gen_requests["adobe_vision"] = 1
    /\ Len(gen.base_kw) < 49
    /\ gen_requests["adobe_pad"] = 1

-----------------------------------------------------------------------------
(* The application: operator, worker and callbacks, src/main.py:256-991 *)

MaxRuns == 2
MaxClicks == 4
MaxFailures == 2

\* the media files of the two folders, and Python's None
Files == [f \in Folders |->
             IF f = "/f" THEN {"/f/1.jpg", "/f/2.jpg"} ELSE {"/g/1.jpg"}]
Assets == UNION {Files[f] : f \in Folders}
None == "None"

\* The fields of a record or of the form, taken as a whole: what run says
\* about which asset (run 0: a record that was there before); Blank is the
\* form after _clear_fields
Generated(asset, run) == [asset |-> asset, run |-> run]
Blank == [asset |-> None, run |-> 0]

\* a table as the map load_db returns, db[key] = rec on it
NoTable == [k \in {} |-> Blank]
TableSet(db, key, rec) ==
    [k \in DOMAIN db \cup {key} |-> IF k = key THEN rec ELSE db[k]]

NoWorker == [pc |-> "idle", run |-> 0, b64 |-> None, tagged |-> None,
             status |-> None]

AppIdle ==
    /\ current_file = None /\ current_folder = None
    /\ app_metadata = NoMetadata
    /\ form = Blank
    /\ save_btn = "disabled" /\ gen_btn = "normal"
    /\ tables = [f \in Folders |-> NoTable]
    /\ db_cache = [f \in {} |-> NoTable]
    /\ worker = NoWorker
    /\ after = <<>>
    /\ closed = TRUE
    /\ runs = 0 /\ clicks = 0
    /\ writes = {} /\ by_hand = {}
    /\ outcome = <<>>
    /\ shown = {}

\* App.__init__, lines 256-266; folder /f has no table yet or a table with
\* a record for its first file
AppInit ==
    /\ current_file = None /\ current_folder = None
    /\ app_metadata = NoMetadata
    /\ form = Blank
    /\ save_btn = "disabled" /\ gen_btn = "normal"
    /\ tables \in {[f \in Folders |-> NoTable],
                   [f \in Folders |->
                       IF f = "/f"
                       THEN TableSet(NoTable, "/f/1.jpg", Generated("/f/1.jpg", 0))
                       ELSE NoTable]}
    /\ db_cache = [f \in {} |-> NoTable]
    /\ worker = NoWorker
    /\ after = <<>>
    /\ closed = FALSE
    /\ runs = 0 /\ clicks = 0
    /\ writes = {} /\ by_hand = {}
    /\ outcome = <<>>
    /\ shown = {}

\* the records the tables held at the start
InitialKeys(f) == IF f = "/f" THEN {"/f/1.jpg"} ELSE {}

\* What a save_db call (lines 93-99) does to the table file: it is
\* rewritten ("ok"); load_db or open raises and the file stays as it was
\* ("unopened"); or open(..., "w") has emptied the file and the write raises
\* before a row is out ("unwritten": the disk is full, or the first row
\* read back from the file has a field the header does not name and
\* DictWriter.writerow raises ValueError), which leaves a table without
\* records
SaveOutcomes == {"ok", "unopened", "unwritten"}

\* a variant of line 942 that shows the dialog whoever saves
SurfacedAlways(origin) == TRUE

\* line 942, if not silent: only _save_current calls _do_save(silent=False)
Surfaced(origin) == origin.by = "operator"

\* messagebox.showerror(title, str(e)), lines 872 and 942 ("Kayit Hatasi"
\* stands for the title of line 942), with the run that failed or the
\* operator action that asked for the save
Dialog(title, n) == [title |-> title, n |-> n]

\* the saves that have failed so far
Failures == {w \in writes : w.result # "ok"}

\* _do_save, lines 929-942, with _build_rec: the record is built from the
\* form and keyed by self.current_file, written to the table of
\* self.current_folder and put into the cache; when save_db raises the
\* cache is left alone and the error is shown unless the save is silent
DoSave(origin) ==
    IF current_file = None \/ current_folder = None
    THEN UNCHANGED <<tables, db_cache, writes, shown>>
    ELSE \E result \in SaveOutcomes :
         /\ result # "ok" => Cardinality(Failures) < MaxFailures
         /\ tables' = [tables EXCEPT ![current_folder] =
                          CASE result = "ok" -> TableSet(@, current_file, form)
                            [] result = "unopened" -> @
                            [] result = "unwritten" -> NoTable]
         /\ db_cache' =
               IF result # "ok" THEN db_cache
               ELSE [f \in DOMAIN db_cache \cup {current_folder} |->
                       IF f = current_folder
                       THEN TableSet(IF f \in DOMAIN db_cache THEN db_cache[f]
                                     ELSE NoTable, current_file, form)
                       ELSE db_cache[f]]
         /\ writes' = writes \cup {[origin |-> origin, folder |-> current_folder,
                                    key |-> current_file, content |-> form,
                                    result |-> result]}
         /\ shown' = IF result # "ok" /\ Surfaced(origin)
                     THEN shown \cup {Dialog("Kayit Hatasi", clicks + 1)}
                     ELSE shown

\* _load_folder, lines 696-721: the folder becomes current and its table is
\* read into the cache; self.current_file and the form are left as they are
\* (what the handler does to the listing is ListLoadFolder)
AppLoadFolder ==
    /\ ~closed /\ clicks < MaxClicks
    /\ \E f \in Folders :
          /\ current_folder' = f
          /\ db_cache' = [g \in DOMAIN db_cache \cup {f} |->
                             IF g = f THEN tables[f] ELSE db_cache[g]]
    /\ clicks' = clicks + 1
    /\ UNCHANGED <<current_file, app_metadata, form, save_btn, gen_btn, tables,
                   worker, after, closed, runs, writes, by_hand, outcome,
                   shown>>
    /\ UNCHANGED notApp

\* _select_file, lines 774-795, on a row of the listed folder: the record
\* of the cache is loaded into the form (_load_record), or the form is
\* cleared (_clear_fields)
AppSelect ==
    /\ ~closed /\ clicks < MaxClicks
    /\ current_folder # None
    /\ \E path \in Files[current_folder] :
          LET db == IF current_folder \in DOMAIN db_cache
                    THEN db_cache[current_folder] ELSE NoTable
          IN  /\ current_file' = path
              /\ IF path \in DOMAIN db
                 THEN /\ app_metadata' = db[path]
                      /\ form' = db[path]
                      /\ save_btn' = "normal"
                 ELSE /\ app_metadata' = NoMetadata
                      /\ form' = Blank
                      /\ save_btn' = "disabled"
    /\ clicks' = clicks + 1
    /\ UNCHANGED <<current_folder, gen_btn, tables, db_cache, worker, after,
                   closed, runs, writes, by_hand, outcome, shown>>
    /\ UNCHANGED notApp

\* a variant of line 814 that leaves the button as it is
GenBtnStartedNormal == "normal"

\* line 814: self.gen_btn.configure(state="disabled", ...)
GenBtnStarted == "disabled"

\* _generate, lines 808-814 and 877: the button is disabled and the worker
\* thread started
AppGenerate ==
    /\ ~closed /\ runs < MaxRuns /\ clicks < MaxClicks
    /\ gen_btn = "normal"
    /\ current_file # None
    /\ gen_btn' = GenBtnStarted
    /\ runs' = runs + 1 /\ clicks' = clicks + 1
    /\ worker' = [NoWorker EXCEPT !.pc = "b64", !.run = runs + 1]
    /\ outcome' = Append(outcome, [asset |-> current_file, result |-> "running"])
    /\ UNCHANGED <<current_file, current_folder, app_metadata, form, save_btn,
                   tables, db_cache, after, closed, writes, by_hand, shown>>
    /\ UNCHANGED notApp

\* _save_current, line 927: the operator presses the save button
AppSaveButton ==
    /\ ~closed /\ clicks < MaxClicks
    /\ save_btn = "normal"
    /\ DoSave([by |-> "operator", run |-> 0])
    /\ by_hand' = IF current_file = None \/ current_folder = None THEN by_hand
                  ELSE by_hand \cup {current_file}
    /\ clicks' = clicks + 1
    /\ UNCHANGED <<current_file, current_folder, app_metadata, form, save_btn,
                   gen_btn, worker, after, closed, runs, outcome>>
    /\ UNCHANGED notApp

\* _on_close, lines 329-332: a silent save when a file is current and
\* self.metadata is not empty, then the window is destroyed
AppClose ==
    /\ ~closed
    /\ IF current_file # None /\ app_metadata # NoMetadata
       THEN DoSave([by |-> "close", run |-> 0])
       ELSE UNCHANGED <<tables, db_cache, writes, shown>>
    /\ closed' = TRUE
    /\ UNCHANGED <<current_file, current_folder, app_metadata, form, save_btn,
                   gen_btn, worker, after, runs, clicks, by_hand, outcome>>
    /\ UNCHANGED notApp

\* the worker thread of one run, App._generate.run; it shares
\* self.current_file and self.metadata with the interface thread, and every
\* step below is one access to them or one stage between two accesses

WorkerUnchanged ==
    UNCHANGED <<current_file, current_folder, form, save_btn, gen_btn, tables,
                db_cache, closed, runs, clicks, writes, by_hand, shown>>

Ended(result) == [outcome EXCEPT ![worker.run].result = result]

\* line 819: b64 = get_b64(self.current_file)
WorkerPreview ==
    /\ ~closed /\ worker.pc = "b64"
    /\ \E decoded \in BOOLEAN :
          worker' = [worker EXCEPT !.b64 = current_file,
                                   !.pc = IF decoded THEN "metadata" ELSE "except"]
    /\ UNCHANGED <<app_metadata, after, outcome>>
    /\ WorkerUnchanged
    /\ UNCHANGED notApp

\* a stage that shares nothing with the interface thread: it succeeds or
\* raises
WorkerStage(stage, next) ==
    /\ ~closed /\ worker.pc = stage
    /\ \E ok \in BOOLEAN :
          worker' = [worker EXCEPT !.pc = IF ok THEN next ELSE "except"]
    /\ UNCHANGED <<app_metadata, after, outcome>>
    /\ WorkerUnchanged
    /\ UNCHANGED notApp

\* line 824: meta = api_metadata(b64, key, hint)
WorkerMetadata == WorkerStage("metadata", "adobe")

\* lines 828-841: with credentials the file self.current_file is uploaded to
\* the tagging service; the stage raises when the vision request that
\* follows a failed upload, or the padding request, fails
WorkerAdobe ==
    /\ ~closed /\ worker.pc = "adobe"
    /\ \E ep \in BOOLEAN, ok \in BOOLEAN :
          worker' = [worker EXCEPT
                        !.tagged = IF ep THEN current_file ELSE @,
                        !.pc = IF ok THEN "shutterstock" ELSE "except"]
    /\ UNCHANGED <<app_metadata, after, outcome>>
    /\ WorkerUnchanged
    /\ UNCHANGED notApp

\* lines 844 and 847-848
WorkerShutter == WorkerStage("shutterstock", "istock")
WorkerIstock == WorkerStage("istock", "translate")

\* lines 852-854: api_translate_kw never raises
WorkerTranslate ==
    /\ ~closed /\ worker.pc = "translate"
    /\ worker' = [worker EXCEPT !.pc = "assign"]
    /\ UNCHANGED <<app_metadata, after, outcome>>
    /\ WorkerUnchanged
    /\ UNCHANGED notApp

\* lines 856-864: self.metadata = {...}, what the run made of the preview
WorkerAssign ==
    /\ ~closed /\ worker.pc = "assign"
    /\ app_metadata' = Generated(worker.b64, worker.run)
    /\ worker' = [worker EXCEPT !.pc = "fill"]
    /\ UNCHANGED <<after, outcome>>
    /\ WorkerUnchanged
    /\ UNCHANGED notApp

Callback(cb, delay) == [cb |-> cb, delay |-> delay, run |-> worker.run]

\* line 865: self.after(0, self._fill_all)
WorkerScheduleFill ==
    /\ ~closed /\ worker.pc = "fill"
    /\ after' = Append(after, Callback("_fill_all", 0))
    /\ worker' = [worker EXCEPT !.pc = "save"]
    /\ UNCHANGED <<app_metadata, outcome>>
    /\ WorkerUnchanged
    /\ UNCHANGED notApp

\* lines 866-867: the completion notification names self.current_file, and
\* self.after(600, lambda: self._do_save(silent=True))
WorkerScheduleSave ==
    /\ ~closed /\ worker.pc = "save"
    /\ after' = Append(after, Callback("_do_save", 600))
    /\ worker' = [worker EXCEPT !.status = current_file, !.pc = "finally"]
    /\ outcome' = Ended("ok")
    /\ UNCHANGED app_metadata
    /\ WorkerUnchanged
    /\ UNCHANGED notApp

\* a variant of the except branch that also schedules the autosave
ExceptCallbacksSaving ==
    <<Callback("showerror", 0), Callback("_do_save", 600)>>

\* lines 869-872: the except branch hands the error dialog over
ExceptCallbacks == <<Callback("showerror", 0)>>

WorkerExcept ==
    /\ ~closed /\ worker.pc = "except"
    /\ after' = after \o ExceptCallbacks
    /\ worker' = [worker EXCEPT !.pc = "finally"]
    /\ outcome' = Ended("failed")
    /\ UNCHANGED app_metadata
    /\ WorkerUnchanged
    /\ UNCHANGED notApp

\* a variant of the finally branch that hands nothing over
FinallyCallbacksNone == <<>>

\* lines 873-875: finally: the button is re-enabled by a callback
FinallyCallbacks == <<Callback("gen_btn", 0)>>

WorkerFinally ==
    /\ ~closed /\ worker.pc = "finally"
    /\ after' = after \o FinallyCallbacks
    /\ worker' = [worker EXCEPT !.pc = "ended"]
    /\ UNCHANGED <<app_metadata, outcome>>
    /\ WorkerUnchanged
    /\ UNCHANGED notApp

\* The callbacks run in the interface thread, one at a time, in the order
\* of their due times: a callback without delay overtakes a delayed one
\* that was scheduled before it, and nothing else overtakes
Due(i) == \A j \in 1..(i - 1) : after[j].delay = 600 /\ after[i].delay = 0
Without(i) == SubSeq(after, 1, i - 1) \o SubSeq(after, i + 1, Len(after))

\* _fill_all, lines 880-891: the form is filled from self.metadata
CallbackFillAll ==
    /\ ~closed
    /\ \E i \in 1..Len(after) :
          /\ Due(i) /\ after[i].cb = "_fill_all"
          /\ after' = Without(i)
    /\ form' = IF app_metadata = NoMetadata THEN Blank ELSE app_metadata
    /\ save_btn' = "normal"
    /\ UNCHANGED <<current_file, current_folder, app_metadata, gen_btn, tables,
                   db_cache, worker, closed, runs, clicks, writes, by_hand,
                   outcome, shown>>
    /\ UNCHANGED notApp

\* the autosave: _do_save(silent=True)
CallbackDoSave ==
    /\ ~closed
    /\ \E i \in 1..Len(after) :
          /\ Due(i) /\ after[i].cb = "_do_save"
          /\ after' = Without(i)
          /\ DoSave([by |-> "autosave", run |-> after[i].run])
    /\ UNCHANGED <<current_file, current_folder, app_metadata, form, save_btn,
                   gen_btn, worker, closed, runs, clicks, by_hand, outcome>>
    /\ UNCHANGED notApp

\* gen_btn.configure(state="normal")
CallbackGenBtn ==
    /\ ~closed
    /\ \E i \in 1..Len(after) :
          /\ Due(i) /\ after[i].cb = "gen_btn"
          /\ after' = Without(i)
    /\ gen_btn' = "normal"
    /\ UNCHANGED <<current_file, current_folder, app_metadata, form, save_btn,
                   tables, db_cache, worker, closed, runs, clicks, writes,
                   by_hand, outcome, shown>>
    /\ UNCHANGED notApp

\* line 872: messagebox.showerror("Hata", str(e)) for the failed run
CallbackShowError ==
    /\ ~closed
    /\ \E i \in 1..Len(after) :
          /\ Due(i) /\ after[i].cb = "showerror"
          /\ after' = Without(i)
          /\ shown' = shown \cup {Dialog("Hata", after[i].run)}
    /\ UNCHANGED <<current_file, current_folder, app_metadata, form, save_btn,
                   gen_btn, tables, db_cache, worker, closed, runs, clicks,
                   writes, by_hand, outcome>>
    /\ UNCHANGED notApp

AppNext ==
    \/ AppLoadFolder
    \/ AppSelect
    \/ AppGenerate
    \/ AppSaveButton
    \/ AppClose
    \/ WorkerPreview
    \/ WorkerMetadata
    \/ WorkerAdobe
    \/ WorkerShutter
    \/ WorkerIstock
    \/ WorkerTranslate
    \/ WorkerAssign
    \/ WorkerScheduleFill
    \/ WorkerScheduleSave
    \/ WorkerExcept
    \/ WorkerFinally
    \/ CallbackFillAll
    \/ CallbackDoSave
    \/ CallbackGenBtn
    \/ CallbackShowError

-----------------------------------------------------------------------------
(* Claims about the application *)

\* the asset that was selected when run r was started
RunAsset(r) == outcome[r].asset
RunIds == 1..Len(outcome)
FailedRuns ==
    {r \in RunIds : \/ outcome[r].result = "failed"
                    \/ (worker.run = r /\ worker.pc = "except")}
Autosaves == {w \in writes : w.origin.by = "autosave"}

\* C13: when a stage other than translation raises (preview encoding, the
\* title/description request or its parsing, a keyword request) the run ends
\* failed and nothing of it is kept: its metadata is never assigned to
\* self.metadata, the form is not filled from it, neither the form fill nor
\* the autosave is scheduled, and no table is written by that run.
C13_FailedRunKeepsNothing ==
    \A r \in FailedRuns :
       /\ app_metadata # NoMetadata => app_metadata.run # r
       /\ form.run # r
       /\ \A i \in 1..Len(after) :
             after[i].run = r => after[i].cb \notin {"_fill_all", "_do_save"}
       /\ \A w \in Autosaves : w.origin.run # r
       /\ \A f \in Folders : \A k \in DOMAIN tables[f] : tables[f][k].run # r
       /\ \A f \in DOMAIN db_cache :
             \A k \in DOMAIN db_cache[f] : db_cache[f][k].run # r

\* C13 witness: a first run succeeded and was saved, a second run has
\* failed and ended, and every callback of both has run
C13_Witness ==
    /\ ~closed
    /\ Len(outcome) = 2
    /\ outcome[1].result = "ok"
    /\ outcome[2].result = "failed"
    /\ worker.pc = "ended"
    /\ after = <<>>
    /\ gen_btn = "normal"
    /\ \E w \in Autosaves : w.origin.run = 1

\* C17: the asset of a run is fixed for the whole run: the preview
\* encoding, the upload to the tagging service, the completion notification
\* and the autosave all work on the asset that was selected when the run
\* was started, whatever the operator selects meanwhile.
C17_AssetFixed ==
    /\ worker.pc # "idle" =>
          /\ worker.b64 \in {None, RunAsset(worker.run)}
          /\ worker.tagged \in {None, RunAsset(worker.run)}
          /\ worker.status \in {None, RunAsset(worker.run)}
    /\ \A w \in Autosaves : w.key = RunAsset(w.origin.run)

\* C18: after a successful run for asset A the autosave stores the record
\* generated for A under A's path: no autosave stores anything under another
\* key or stores other content, and once the autosave of a successful run
\* has been executed that record has been written.
C18_AutosaveStoresOwnRecord ==
    /\ \A w \in Autosaves :
          /\ w.key = RunAsset(w.origin.run)
          /\ w.content = Generated(RunAsset(w.origin.run), w.origin.run)
    /\ \A r \in RunIds :
          (/\ outcome[r].result = "ok"
           /\ ~closed
           /\ \A i \in 1..Len(after) :
                 ~(after[i].run = r /\ after[i].cb = "_do_save"))
          => \E w \in Autosaves :
                /\ w.origin.run = r
                /\ w.key = RunAsset(r)
                /\ w.content = Generated(RunAsset(r), r)

\* C19: a record for asset X is in a table only if X had a record at the
\* start, a generation run started for X has not failed, or the operator
\* saved by hand while X was selected; an asset that was only selected
\* (never generated, never saved by hand) has no record.
C19_RecordsOnlyBySaveOrRun ==
    \A f \in Folders : \A k \in DOMAIN tables[f] :
       \/ \E g \in Folders : k \in InitialKeys(g)
       \/ k \in by_hand
       \/ \E r \in RunIds : RunAsset(r) = k /\ outcome[r].result # "failed"

\* C20: the table of folder F holds only records keyed by the path of an
\* asset located in F.
C20_KeysOfOwnFolder ==
    \A f \in Folders : \A k \in DOMAIN tables[f] : k \in Files[f]

\* the saves a step attempts and that fail
FailedNow == {w \in writes' \ writes : w.result # "ok"}

\* C21: when writing the record table fails, a save asked for by the
\* operator shows an error dialog in that step; an autosave or a save on
\* closing shows nothing, and leaves the worker, the buttons, the form, the
\* cache and the other pending callbacks as they are (the window still
\* closes).
C21_SaveErrorSurfacing ==
    [][\A w \in FailedNow :
          /\ w.origin.by = "operator" =>
                /\ Dialog("Kayit Hatasi", clicks') \in shown' \ shown
          /\ w.origin.by \in {"autosave", "close"} =>
                /\ shown' = shown
                /\ UNCHANGED <<worker, gen_btn, save_btn, form, db_cache,
                               app_metadata, current_file, current_folder,
                               outcome>>
                /\ w.origin.by = "close" => closed' /\ after' = after
                /\ w.origin.by = "autosave" =>
                      /\ ~closed'
                      /\ \E i \in 1..Len(after) :
                            /\ after[i].cb = "_do_save"
                            /\ after' = Without(i)]_vars

\* C21 witness: a save by the operator has failed and its dialog was
\* shown, then the autosave of a successful run has failed without a
\* dialog, and the run has ended with the button enabled again
C21_Witness ==
    /\ ~closed
    /\ \E w \in Failures : w.origin.by = "operator"
    /\ \E w \in Failures : w.origin.by = "autosave"
    /\ Cardinality(shown) = 1
    /\ worker.pc = "ended" /\ after = <<>> /\ gen_btn = "normal"
    /\ outcome[worker.run].result = "ok"


\* the runs whose worker has not yet left its last stage
InFlight == {r \in RunIds : outcome[r].result = "running"}

\* C25: at most one generation run is in flight: while a worker is at one
\* of its stages the generate button is disabled, so no second worker is
\* started; every run but the worker's own has ended, and a pending
\* autosave of another run is the autosave of a run that has ended.
C25_OneRunInFlight ==
    /\ gen_btn = "normal" => worker.pc \in {"idle", "ended"}
    /\ Cardinality(InFlight) <= 1
    /\ \A r \in InFlight : r = worker.run
    /\ \A i \in 1..Len(after) :
          after[i].run # worker.run => outcome[after[i].run].result # "running"

\* C25 witness: the first run has ended and its autosave is still pending
\* while the worker of the second run is at one of its stages
C25_Witness ==
    /\ ~closed
    /\ worker.run = 2
    /\ worker.pc \notin {"idle", "ended"}
    /\ InFlight = {2}
    /\ gen_btn = "disabled"
    /\ \E i \in 1..Len(after) : after[i].cb = "_do_save" /\ after[i].run = 1

\* the steps of the worker thread, and the callbacks of the interface thread
WorkerNext ==
    \/ WorkerPreview \/ WorkerMetadata \/ WorkerAdobe \/ WorkerShutter
    \/ WorkerIstock \/ WorkerTranslate \/ WorkerAssign
    \/ WorkerScheduleFill \/ WorkerScheduleSave \/ WorkerExcept
    \/ WorkerFinally
CallbackNext ==
    \/ CallbackFillAll \/ CallbackDoSave \/ CallbackGenBtn
    \/ CallbackShowError

\* C27: every run that is started ends, and after a run is started the
\* generate button is enabled again, whether the run succeeds or fails, as
\* long as the window is not closed meanwhile (closing destroys the button
\* and ends the process with its worker thread).
C27_RunEndsButtonReturns ==
    (gen_btn = "disabled" \/ worker.pc \notin {"idle", "ended"})
        ~> (closed \/ (gen_btn = "normal" /\ worker.pc = "ended"))

\* C27 witness: a run has failed and ended, its error dialog and the
\* button callback have run, and the button is enabled
C27_Witness ==
    /\ ~closed
    /\ Len(outcome) = 1
    /\ outcome[1].result = "failed"
    /\ worker.pc = "ended"
    /\ after = <<>>
    /\ Dialog("Hata", 1) \in shown
    /\ gen_btn = "normal"

\* C26: after any sequence of folder loads, successful saves and failed
\* saves the cache of every loaded folder equals the table persisted for
\* that folder.
C26_CacheEqualsTable ==
    \A f \in DOMAIN db_cache : db_cache[f] = tables[f]

-----------------------------------------------------------------------------
(* The file listing, src/main.py:696-772 *)

MaxLoads == 3

\* lines 704-707: the media files of a folder sorted by name
FileList == [f \in Folders |->
                IF f = "/f" THEN <<"/f/1.jpg", "/f/2.jpg">> ELSE <<"/g/1.jpg">>]

LsIdle ==
    /\ ls_files = <<>> /\ ls_rows = <<>> /\ ls_row_map = {}
    /\ ls_loaders = <<>> /\ ls_after = <<>>
    /\ ls_loads = MaxLoads

\* App.__init__, lines 256-266: no folder loaded, an empty listing
LsInit ==
    /\ ls_files = <<>> /\ ls_rows = <<>> /\ ls_row_map = {}
    /\ ls_loaders = <<>> /\ ls_after = <<>>
    /\ ls_loads = 0

\* _load_folder, lines 704-720, as far as the listing goes: self._files is
\* replaced, the rows are destroyed, the row map is cleared and a loader
\* thread is started; the threads and callbacks of earlier loads are left
\* alone
ListLoadFolder ==
    /\ ls_loads < MaxLoads
    /\ \E f \in Folders :
          /\ ls_files' = FileList[f]
          /\ ls_loaders' = Append(ls_loaders,
                                  [folder |-> f, pc |-> "start", files |-> <<>>,
                                   i |-> 0])
    /\ ls_rows' = <<>>
    /\ ls_row_map' = {}
    /\ ls_loads' = ls_loads + 1
    /\ UNCHANGED ls_after
    /\ UNCHANGED notLs

\* _load_thumbs_bg, lines 724-725: the loop takes the list self._files
\* holds when the thread gets to run
LoaderStart(n) ==
    /\ ls_loaders[n].pc = "start"
    /\ ls_loaders' = [ls_loaders EXCEPT
                         ![n].files = ls_files,
                         ![n].i = 1,
                         ![n].pc = IF ls_files = <<>> THEN "done" ELSE "loop"]
    /\ UNCHANGED <<ls_files, ls_rows, ls_row_map, ls_after, ls_loads>>
    /\ UNCHANGED notLs

\* lines 726-737, one turn of the loop: the thumbnail is made, or the image
\* is None when get_thumb raises, and _add_row is handed to the interface
\* thread with a delay of i * 30 ms
LoaderThumb(n) ==
    /\ ls_loaders[n].pc = "loop"
    /\ LET l == ls_loaders[n]
       IN  /\ \E img \in {"thumb", None} :
                 ls_after' = Append(ls_after,
                                    [loader |-> n, path |-> l.files[l.i],
                                     img |-> img])
           /\ ls_loaders' = [ls_loaders EXCEPT
                                ![n].i = l.i + 1,
                                ![n].pc = IF l.i = Len(l.files) THEN "done"
                                          ELSE "loop"]
    /\ UNCHANGED <<ls_files, ls_rows, ls_row_map, ls_loads>>
    /\ UNCHANGED notLs

\* the callbacks of one loader become due in the order of its loop (the
\* delay grows with i); those of different loaders in any order
LsDue(k) == \A j \in 1..(k - 1) : ls_after[j].loader # ls_after[k].loader

\* _add_row, lines 739-772: a row for the file is packed at the bottom of
\* the listing and entered in the row map
ListAddRow ==
    /\ \E k \in 1..Len(ls_after) :
          /\ LsDue(k)
          /\ ls_rows' = Append(ls_rows, ls_after[k].path)
          /\ ls_row_map' = ls_row_map \cup {ls_after[k].path}
          /\ ls_after' = SubSeq(ls_after, 1, k - 1)
                            \o SubSeq(ls_after, k + 1, Len(ls_after))
    /\ UNCHANGED <<ls_files, ls_loaders, ls_loads>>
    /\ UNCHANGED notLs

LsNext ==
    \/ ListLoadFolder
    \/ \E n \in 1..Len(ls_loaders) : LoaderStart(n) \/ LoaderThumb(n)
    \/ ListAddRow

-----------------------------------------------------------------------------
(* Claims about the file listing *)

\* every loader has ended and every row callback has run
ListSettled ==
    /\ ls_loaders # <<>>
    /\ \A n \in 1..Len(ls_loaders) : ls_loaders[n].pc = "done"
    /\ ls_after = <<>>

\* the number of rows of the listing for a file
RowsOf(path) == Cardinality({k \in 1..Len(ls_rows) : ls_rows[k] = path})

\* C23: population is cancel-on-replace: once the loaders have ended and
\* the row callbacks have run, the listing holds exactly one row for each
\* file of the folder loaded last and no row for a file of another folder.
C23_ListingOfLastFolder ==
    ListSettled =>
       LET last == ls_loaders[Len(ls_loaders)].folder
       IN  \A path \in Assets :
              RowsOf(path) = IF path \in Files[last] THEN 1 ELSE 0

-----------------------------------------------------------------------------
(* Specifications: one per component under check *)

InitFill == FillInit /\ TrIdle /\ IstIdle /\ DbIdle /\ SvIdle /\ ThIdle /\ GenIdle /\ AppIdle /\ LsIdle
SpecFill == InitFill /\ [][FillNext]_vars

InitTranslate == TrInit /\ FillIdle /\ IstIdle /\ DbIdle /\ SvIdle /\ ThIdle /\ GenIdle /\ AppIdle /\ LsIdle
SpecTranslate == InitTranslate /\ [][TrNext]_vars

InitIstock == IstInit /\ FillIdle /\ TrIdle /\ DbIdle /\ SvIdle /\ ThIdle /\ GenIdle /\ AppIdle /\ LsIdle
SpecIstock == InitIstock /\ [][IstNext]_vars

InitDb == DbInit /\ FillIdle /\ TrIdle /\ IstIdle /\ SvIdle /\ ThIdle /\ GenIdle /\ AppIdle /\ LsIdle
SpecDb == InitDb /\ [][DbNext]_vars

InitSaves == SvInit /\ FillIdle /\ TrIdle /\ IstIdle /\ DbIdle /\ ThIdle /\ GenIdle /\ AppIdle /\ LsIdle
SpecSaves == InitSaves /\ [][SvNext]_vars

InitThumbs == ThInit /\ FillIdle /\ TrIdle /\ IstIdle /\ DbIdle /\ SvIdle /\ GenIdle /\ AppIdle /\ LsIdle
SpecThumbs == InitThumbs /\ [][ThNext]_vars

InitRun ==
    GenInit /\ FillIdle /\ TrIdle /\ IstIdle /\ DbIdle /\ SvIdle /\ ThIdle
        /\ AppIdle /\ LsIdle
SpecRun == InitRun /\ [][GenNext]_vars

InitApp ==
    AppInit /\ FillIdle /\ TrIdle /\ IstIdle /\ DbIdle /\ SvIdle /\ ThIdle
        /\ GenIdle /\ LsIdle
SpecApp == InitApp /\ [][AppNext]_vars

\* The worker thread gets to run, every request returns or raises (the
\* timeouts of lines 142, 152 and 227), and the interface thread runs the
\* callbacks that are due (the operator dismisses an error dialog)
SpecAppFair ==
    InitApp /\ [][AppNext]_vars /\ WF_vars(WorkerNext) /\ WF_vars(CallbackNext)

InitList ==
    LsInit /\ FillIdle /\ TrIdle /\ IstIdle /\ DbIdle /\ SvIdle /\ ThIdle
        /\ GenIdle /\ AppIdle
SpecList == InitList /\ [][LsNext]_vars

=============================================================================
